---- MODULE Spec2Model ----
(***************************************************************************)
(* AuraCast: the optimistic update ledger and conflict resolver            *)
(* (OptimisticUpdateManager, src/src/lib/mockApi.ts 543-712).              *)
(*                                                                         *)
(* The manager is single-threaded: every public method runs to completion  *)
(* inside one task, so each method call is one atomic action.  A call's    *)
(* handler is a pure operator on the manager record                        *)
(*   m = [updates, conflicts, subscribers, conflictSubscribers, out, made] *)
(* where out is the trace of what the call emitted (subscriber callbacks   *)
(* and the applyResolvedData hand-off), in emission order, and made lists  *)
(* the conflict ids the call generated.                                    *)
(*                                                                         *)
(* JavaScript Maps and Sets iterate in insertion order, so updates,        *)
(* conflicts and both subscriber sets are sequences without repeated keys. *)
(* Fields of OptimisticUpdate that the manager never reads (type,          *)
(* collection, previousData, userId, timestamp) are left out.              *)
(***************************************************************************)
EXTENDS Integers, Sequences, FiniteSets, TLC

\* ------------------------------------------------------------------ bounds
\* applyUpdate calls per run (the ledger itself is unbounded in the source)
MaxUpdates == 2
\* conflicts created per run
MaxConflicts == 2

\* ------------------------------------------------------------- JS values
\* an argument that was not passed / an optional field that is not set
Undefined == [tag |-> "undefined"]
\* a value that was passed but is falsy (null, 0, "", false)
Null == [tag |-> "null"]
\* JavaScript truthiness of the values the model passes around
Truthy(v) == v \notin {Undefined, Null}

\* payloads of local updates (OptimisticUpdate.data)
LocalPayloads == { [x |-> 1, y |-> 1] }
\* what the server may hold instead (Conflict.remoteData), all truthy
RemoteObjects == { [x |-> 2, z |-> 2, version |-> 1], [y |-> 2, version |-> 3] }
\* the serverData argument of resolveUpdate
ServerDatas == RemoteObjects \cup {Undefined, Null}

\* custom merge functions a caller may supply: the one useOptimisticFilters
\* passes ({...remote, ...local}) and one that lets the remote side win
MergeFunctions == {"hookMerge", "preferRemote"}

\* ConflictResolutionStrategy values (optional fields are left out when unset)
Strategies ==
  { [strategy |-> "last-writer-wins"],
    [strategy |-> "merge"],
    [strategy |-> "merge", mergeFunction |-> "preferRemote"],
    [strategy |-> "version-based", version |-> 2],
    [strategy |-> "manual"] }
\* the conflictResolution an update may carry (Undefined: none)
UpdateStrategies ==
  { Undefined,
    [strategy |-> "last-writer-wins"],
    [strategy |-> "merge", mergeFunction |-> "hookMerge"],
    [strategy |-> "manual"] }

\* observers that may register for the ledger
Subs == {"s1", "s2"}
\* observers that may register for the conflict list
ConflictSubs == {"c1"}

VARIABLES updates, conflicts, subscribers, conflictSubscribers,
          nextUpdate, nextConflict, last,
          rd, now, inflight,
          ens, fc,
          store, an, cq, sync, eng

\* the resolver's record of its last switch
resolverVars == <<rd>>
\* the clock and the mutations the hooks are awaiting
hookVars == <<now, inflight>>
\* the prediction engine: the combiner's call and the forecast of the panel
engineVars == <<ens, fc>>
\* the forecast store, the anomaly scorer, the concurrent update queue, the
\* offline sync queue and the loading of the engine's models
serviceVars == <<store, an, cq, sync, eng>>
\* what the calls on the manager leave alone
otherVars == <<resolverVars, hookVars, engineVars, serviceVars>>
\* what the services leave alone
coreVars == <<updates, conflicts, subscribers, conflictSubscribers,
              nextUpdate, nextConflict, last, resolverVars, hookVars, engineVars>>

vars == <<updates, conflicts, subscribers, conflictSubscribers,
          nextUpdate, nextConflict, last, otherVars>>

\* --------------------------------------------------------- Map/Set helpers
\* Range of a sequence
Range(s) == { s[i] : i \in 1..Len(s) }
\* Map.has / Map.get / Map.delete on a sequence of records keyed by .id
MapHas(map, key) == \E i \in 1..Len(map) : map[i].id = key
MapGet(map, key) == map[CHOOSE i \in 1..Len(map) : map[i].id = key]
MapDelete(map, key) == SelectSeq(map, LAMBDA e : e.id # key)
\* Map.set: an existing key keeps its place, a new key goes last
MapSet(map, key, val) ==
  IF MapHas(map, key)
  THEN [i \in 1..Len(map) |-> IF map[i].id = key THEN val ELSE map[i]]
  ELSE Append(map, val)
\* Set.add / Set.delete on a sequence without repetitions
SetAdd(set, e) == IF e \in Range(set) THEN set ELSE Append(set, e)
SetDelete(set, e) == SelectSeq(set, LAMBDA y : y # e)

\* seeded fault: the spread is taken the other way round, a's fields win
Spread_FirstWins(a, b) ==
  [f \in (DOMAIN a) \cup (DOMAIN b) |-> IF f \in DOMAIN a THEN a[f] ELSE b[f]]

\* { ...a, ...b }: b's fields override a's
Spread(a, b) ==
  [f \in (DOMAIN a) \cup (DOMAIN b) |-> IF f \in DOMAIN b THEN b[f] ELSE a[f]]

\* ---------------------------------------------------------------- readers
getPendingUpdates(m) == m.updates

getActiveConflicts(m) ==
  SelectSeq(m.conflicts, LAMBDA c : c.resolution \in {"pending", "manual"})

\* ----------------------------------------------------------- notification
\* one forEach over the subscriber set: each callback gets the same list
notifySubscribers(m) ==
  LET list == getPendingUpdates(m)
  IN  [m EXCEPT !.out = @ \o [i \in 1..Len(m.subscribers) |->
         [kind |-> "ledger", to |-> m.subscribers[i], list |-> list]]]

notifyConflictSubscribers(m) ==
  LET list == getActiveConflicts(m)
  IN  [m EXCEPT !.out = @ \o [i \in 1..Len(m.conflictSubscribers) |->
         [kind |-> "conflicts", to |-> m.conflictSubscribers[i], list |-> list]]]

\* --------------------------------------------------------------- handlers
applyUpdate(m, update, updateId) ==
  LET fullUpdate == [id |-> updateId, data |-> update.data,
                     conflictResolution |-> update.conflictResolution]
  IN  notifySubscribers([m EXCEPT !.updates = MapSet(@, updateId, fullUpdate)])

\* seeded fault: the cleanup also empties the conflict map
clearPendingUpdates_ClearsConflicts(m) ==
  notifySubscribers([m EXCEPT !.updates = << >>, !.conflicts = << >>])

clearPendingUpdates(m) ==
  notifySubscribers([m EXCEPT !.updates = << >>])

\* applyResolvedData only logs the collection and the resolved data: the
\* hand-off of the resolved value is recorded in the call's trace
applyResolvedData(m, update, resolvedData) ==
  [m EXCEPT !.out = Append(@, [kind |-> "applied", update |-> update.id,
                               data |-> resolvedData])]

\* resolution.mergeFunction(local, remote) for the functions of MergeFunctions
CallMergeFunction(fn, local, remote) ==
  CASE fn = "hookMerge" -> Spread(remote, local)
    [] fn = "preferRemote" -> Spread(local, remote)

\* seeded fault: a missing version counts as 1
VersionOrZero_MissingIsOne(obj) ==
  IF "version" \in DOMAIN obj /\ obj.version # 0 THEN obj.version ELSE 1

\* x.version || 0
VersionOrZero(obj) ==
  IF "version" \in DOMAIN obj /\ obj.version # 0 THEN obj.version ELSE 0

\* seeded fault: last-writer-wins takes the server's data as the last write
ResolvedData_ServerIsLast(conflict, resolution) ==
  CASE resolution.strategy = "last-writer-wins" -> conflict.remoteData
    [] resolution.strategy = "merge" ->
         IF "mergeFunction" \in DOMAIN resolution
         THEN CallMergeFunction(resolution.mergeFunction,
                                conflict.localUpdate.data, conflict.remoteData)
         ELSE Spread(conflict.remoteData, conflict.localUpdate.data)
    [] resolution.strategy = "version-based" ->
         LET localVersion == VersionOrZero(resolution)
             remoteVersion == VersionOrZero(conflict.remoteData)
         IN  IF localVersion > remoteVersion
             THEN conflict.localUpdate.data
             ELSE conflict.remoteData
    [] OTHER -> conflict.remoteData

\* the switch of resolveConflict, for the strategies that resolve
ResolvedData(conflict, resolution) ==
  CASE resolution.strategy = "last-writer-wins" -> conflict.localUpdate.data
    [] resolution.strategy = "merge" ->
         IF "mergeFunction" \in DOMAIN resolution
         THEN CallMergeFunction(resolution.mergeFunction,
                                conflict.localUpdate.data, conflict.remoteData)
         ELSE Spread(conflict.remoteData, conflict.localUpdate.data)
    [] resolution.strategy = "version-based" ->
         LET localVersion == VersionOrZero(resolution)
             remoteVersion == VersionOrZero(conflict.remoteData)
         IN  IF localVersion > remoteVersion
             THEN conflict.localUpdate.data
             ELSE conflict.remoteData
    [] OTHER -> conflict.remoteData

\* seeded fault: the ledger entry of the resolved conflict is not deleted
resolveConflict_KeepsLedgerEntry(m, conflictId, resolution) ==
  IF ~MapHas(m.conflicts, conflictId) THEN m
  ELSE
    LET conflict == MapGet(m.conflicts, conflictId)
    IN  IF resolution.strategy = "manual"
        THEN notifyConflictSubscribers(
               [m EXCEPT !.conflicts =
                  MapSet(@, conflictId, [conflict EXCEPT !.resolution = "manual"])])
        ELSE
          LET resolvedData == ResolvedData(conflict, resolution)
              m1 == applyResolvedData(m, conflict.localUpdate, resolvedData)
              m2 == [m1 EXCEPT !.conflicts = MapDelete(@, conflictId)]
          IN  notifySubscribers(notifyConflictSubscribers(m2))

\* seeded fault: case 'manual' has no return and falls through to the default
\* case, which resolves with the remote data
resolveConflict_ManualFallsThrough(m, conflictId, resolution) ==
  IF ~MapHas(m.conflicts, conflictId) THEN m
  ELSE
    LET conflict == MapGet(m.conflicts, conflictId)
        m0 == IF resolution.strategy = "manual"
              THEN notifyConflictSubscribers(
                     [m EXCEPT !.conflicts =
                        MapSet(@, conflictId,
                               [conflict EXCEPT !.resolution = "manual"])])
              ELSE m
        resolvedData == IF resolution.strategy = "manual"
                        THEN conflict.remoteData
                        ELSE ResolvedData(conflict, resolution)
        m1 == applyResolvedData(m0, conflict.localUpdate, resolvedData)
        m2 == [m1 EXCEPT !.conflicts = MapDelete(@, conflictId)]
        m3 == [m2 EXCEPT !.updates = MapDelete(@, conflict.localUpdate.id)]
    IN  notifySubscribers(notifyConflictSubscribers(m3))

\* seeded fault: the conflict list is published even when the id is unknown
resolveConflict_NotifiesWhenMissing(m, conflictId, resolution) ==
  IF ~MapHas(m.conflicts, conflictId) THEN notifyConflictSubscribers(m)
  ELSE
    LET conflict == MapGet(m.conflicts, conflictId)
    IN  IF resolution.strategy = "manual"
        THEN notifyConflictSubscribers(
               [m EXCEPT !.conflicts =
                  MapSet(@, conflictId, [conflict EXCEPT !.resolution = "manual"])])
        ELSE
          LET resolvedData == ResolvedData(conflict, resolution)
              m1 == applyResolvedData(m, conflict.localUpdate, resolvedData)
              m2 == [m1 EXCEPT !.conflicts = MapDelete(@, conflictId)]
              m3 == [m2 EXCEPT !.updates = MapDelete(@, conflict.localUpdate.id)]
          IN  notifySubscribers(notifyConflictSubscribers(m3))

\* seeded fault: resolving a conflict empties the whole ledger instead of
\* deleting the one paired update
resolveConflict_ClearsLedger(m, conflictId, resolution) ==
  IF ~MapHas(m.conflicts, conflictId) THEN m
  ELSE
    LET conflict == MapGet(m.conflicts, conflictId)
    IN  IF resolution.strategy = "manual"
        THEN notifyConflictSubscribers(
               [m EXCEPT !.conflicts =
                  MapSet(@, conflictId, [conflict EXCEPT !.resolution = "manual"])])
        ELSE
          LET resolvedData == ResolvedData(conflict, resolution)
              m1 == applyResolvedData(m, conflict.localUpdate, resolvedData)
              m2 == [m1 EXCEPT !.conflicts = MapDelete(@, conflictId)]
              m3 == [m2 EXCEPT !.updates = << >>]
          IN  notifySubscribers(notifyConflictSubscribers(m3))

resolveConflict(m, conflictId, resolution) ==
  IF ~MapHas(m.conflicts, conflictId) THEN m
  ELSE
    LET conflict == MapGet(m.conflicts, conflictId)
    IN  IF resolution.strategy = "manual"
        THEN notifyConflictSubscribers(
               [m EXCEPT !.conflicts =
                  MapSet(@, conflictId, [conflict EXCEPT !.resolution = "manual"])])
        ELSE
          LET resolvedData == ResolvedData(conflict, resolution)
              m1 == applyResolvedData(m, conflict.localUpdate, resolvedData)
              m2 == [m1 EXCEPT !.conflicts = MapDelete(@, conflictId)]
              m3 == [m2 EXCEPT !.updates = MapDelete(@, conflict.localUpdate.id)]
          IN  notifySubscribers(notifyConflictSubscribers(m3))

\* seeded fault: the update is taken out of the ledger when its conflict is made
handleConflict_DropsLedgerEntry(m, update, serverData, conflictId) ==
  LET conflict == [id |-> conflictId, localUpdate |-> update,
                   remoteData |-> serverData, resolution |-> "pending"]
      m1 == notifyConflictSubscribers(
              [m EXCEPT !.conflicts = MapSet(@, conflictId, conflict),
                        !.updates = MapDelete(@, update.id),
                        !.made = Append(@, conflictId)])
  IN  IF update.conflictResolution # Undefined
      THEN resolveConflict(m1, conflictId, update.conflictResolution)
      ELSE m1

handleConflict(m, update, serverData, conflictId) ==
  LET conflict == [id |-> conflictId, localUpdate |-> update,
                   remoteData |-> serverData, resolution |-> "pending"]
      m1 == notifyConflictSubscribers(
              [m EXCEPT !.conflicts = MapSet(@, conflictId, conflict),
                        !.made = Append(@, conflictId)])
  IN  IF update.conflictResolution # Undefined
      THEN resolveConflict(m1, conflictId, update.conflictResolution)
      ELSE m1

\* seeded fault: the test is serverData !== undefined instead of truthiness
resolveUpdate_AnySuppliedData(m, updateId, success, serverData, conflictId) ==
  IF ~MapHas(m.updates, updateId) THEN m
  ELSE
    LET update == MapGet(m.updates, updateId)
        m1 == IF success
              THEN [m EXCEPT !.updates = MapDelete(@, updateId)]
              ELSE IF serverData # Undefined
                   THEN handleConflict(m, update, serverData, conflictId)
                   ELSE [m EXCEPT !.updates = MapDelete(@, updateId)]
    IN  notifySubscribers(m1)

\* seeded fault: the trailing notifySubscribers is missing
resolveUpdate_NoTrailingNotify(m, updateId, success, serverData, conflictId) ==
  IF ~MapHas(m.updates, updateId) THEN m
  ELSE
    LET update == MapGet(m.updates, updateId)
    IN  IF success
        THEN [m EXCEPT !.updates = MapDelete(@, updateId)]
        ELSE IF Truthy(serverData)
             THEN handleConflict(m, update, serverData, conflictId)
             ELSE [m EXCEPT !.updates = MapDelete(@, updateId)]

\* seeded fault: a failure without serverData keeps the update for a retry
resolveUpdate_KeepsFailedUpdate(m, updateId, success, serverData, conflictId) ==
  IF ~MapHas(m.updates, updateId) THEN m
  ELSE
    LET update == MapGet(m.updates, updateId)
        m1 == IF success
              THEN [m EXCEPT !.updates = MapDelete(@, updateId)]
              ELSE IF Truthy(serverData)
                   THEN handleConflict(m, update, serverData, conflictId)
                   ELSE m
    IN  notifySubscribers(m1)

resolveUpdate(m, updateId, success, serverData, conflictId) ==
  IF ~MapHas(m.updates, updateId) THEN m
  ELSE
    LET update == MapGet(m.updates, updateId)
        m1 == IF success
              THEN [m EXCEPT !.updates = MapDelete(@, updateId)]
              ELSE IF Truthy(serverData)
                   THEN handleConflict(m, update, serverData, conflictId)
                   ELSE [m EXCEPT !.updates = MapDelete(@, updateId)]
    IN  notifySubscribers(m1)

subscribe(m, callback) == [m EXCEPT !.subscribers = SetAdd(@, callback)]
unsubscribe(m, callback) == [m EXCEPT !.subscribers = SetDelete(@, callback)]
subscribeToConflicts(m, callback) ==
  [m EXCEPT !.conflictSubscribers = SetAdd(@, callback)]
unsubscribeConflicts(m, callback) ==
  [m EXCEPT !.conflictSubscribers = SetDelete(@, callback)]

\* ------------------------------------------------------------ the machine
\* the manager as a call finds it, with an empty trace
Manager ==
  [updates |-> updates, conflicts |-> conflicts, subscribers |-> subscribers,
   conflictSubscribers |-> conflictSubscribers, out |-> << >>, made |-> << >>]

\* a call returns: the manager's fields are those the handler left, and last
\* records the call, what it returned and what it emitted
Return(m, op, args, ret) ==
  /\ updates' = m.updates
  /\ conflicts' = m.conflicts
  /\ subscribers' = m.subscribers
  /\ conflictSubscribers' = m.conflictSubscribers
  /\ nextConflict' = nextConflict + Len(m.made)
  /\ last' = [op |-> op, args |-> args, ret |-> ret, out |-> m.out,
              made |-> m.made]

\* no conflict has been resolved yet
NoResolution == [tag |-> "none"]

\* the combiner has not been called, no forecast has been asked for
NoCall == [tag |-> "none"]
NoForecast == [status |-> "idle"]

InitManager ==
  /\ updates = << >>
  /\ conflicts = << >>
  /\ subscribers = << >>
  /\ conflictSubscribers = << >>
  /\ nextUpdate = 1
  /\ nextConflict = 1
  /\ last = [op |-> "new", args |-> << >>, ret |-> 0, out |-> << >>,
             made |-> << >>]
  /\ rd = NoResolution
  /\ now = 1
  /\ inflight = << >>

\* no forecast action has been called, no series has been given to the scorer
NoStore == [status |-> "idle"]
NoSeries == [tag |-> "none"]
\* new ConcurrentUpdateManager(): the queue is empty and nothing is being
\* processed; no batch is awaited, no timer is set, no update was given yet
NewUpdateManager ==
  [updateQueue |-> << >>, isProcessing |-> FALSE, awaiting |-> FALSE,
   batch |-> << >>, timers |-> 0, queued |-> 0, promised |-> 0,
   executed |-> << >>,
   cleared |-> {}, logged |-> 0, unhandled |-> FALSE]
\* no component has called useOfflineSync yet
NoSync == [tag |-> "none"]
\* the component has not made its MLPredictionWorker yet
NoEngine == [tag |-> "none"]

InitServices ==
  /\ store = NoStore
  /\ an = NoSeries
  /\ cq = NewUpdateManager
  /\ sync = NoSync
  /\ eng = NoEngine

Init ==
  /\ InitManager
  /\ ens = NoCall
  /\ fc = NoForecast
  /\ InitServices

\* updateId is `update_${Date.now()}_${random}`: a fresh key, here the next
\* unused number
Call_applyUpdate ==
  \E data \in LocalPayloads, cr \in UpdateStrategies :
    /\ nextUpdate <= MaxUpdates
    /\ Return(applyUpdate(Manager, [data |-> data, conflictResolution |-> cr],
                          nextUpdate),
              "applyUpdate", <<data, cr>>, nextUpdate)
    /\ nextUpdate' = nextUpdate + 1
    /\ UNCHANGED otherVars

\* conflictId is `conflict_${Date.now()}_${random}`, made only in handleConflict
Call_resolveUpdate ==
  \E updateId \in 1..MaxUpdates, success \in BOOLEAN, serverData \in ServerDatas :
    LET m == resolveUpdate(Manager, updateId, success, serverData, nextConflict)
    IN  /\ m.made # << >> => nextConflict <= MaxConflicts
        /\ Return(m, "resolveUpdate", <<updateId, success, serverData>>, 0)
        /\ UNCHANGED <<nextUpdate, otherVars>>

Call_resolveConflict ==
  \E conflictId \in 1..MaxConflicts, resolution \in Strategies :
    /\ Return(resolveConflict(Manager, conflictId, resolution),
              "resolveConflict", <<conflictId, resolution>>, 0)
    /\ UNCHANGED <<nextUpdate, otherVars>>

Call_clearPendingUpdates ==
  /\ Return(clearPendingUpdates(Manager), "clearPendingUpdates", << >>, 0)
  /\ UNCHANGED <<nextUpdate, otherVars>>

Call_subscribe ==
  \E callback \in Subs :
    /\ Return(subscribe(Manager, callback), "subscribe", <<callback>>, 0)
    /\ UNCHANGED <<nextUpdate, otherVars>>

Call_unsubscribe ==
  \E callback \in Subs :
    /\ Return(unsubscribe(Manager, callback), "unsubscribe", <<callback>>, 0)
    /\ UNCHANGED <<nextUpdate, otherVars>>

Call_subscribeToConflicts ==
  \E callback \in ConflictSubs :
    /\ Return(subscribeToConflicts(Manager, callback),
              "subscribeToConflicts", <<callback>>, 0)
    /\ UNCHANGED <<nextUpdate, otherVars>>

Call_unsubscribeConflicts ==
  \E callback \in ConflictSubs :
    /\ Return(unsubscribeConflicts(Manager, callback),
              "unsubscribeConflicts", <<callback>>, 0)
    /\ UNCHANGED <<nextUpdate, otherVars>>

Next ==
  \/ Call_applyUpdate
  \/ Call_resolveUpdate
  \/ Call_resolveConflict
  \/ Call_clearPendingUpdates
  \/ Call_subscribe
  \/ Call_unsubscribe
  \/ Call_subscribeToConflicts
  \/ Call_unsubscribeConflicts

Spec == Init /\ [][Next]_vars

\* ================================================================ claims
\* ids of the updates in the pending ledger
LedgerIds == { updates[i].id : i \in 1..Len(updates) }
\* ids of the updates some Conflict of the conflict set holds as localUpdate
ConflictedIds == { conflicts[i].localUpdate.id : i \in 1..Len(conflicts) }
\* the same two sets for a manager record a handler returned
LedgerIdsOf(m) == { m.updates[i].id : i \in 1..Len(m.updates) }
ConflictedIdsOf(m) == { m.conflicts[i].localUpdate.id : i \in 1..Len(m.conflicts) }
ConflictIdsOf(m) == { m.conflicts[i].id : i \in 1..Len(m.conflicts) }
\* the conflicts of a conflict map that reference update u
ConflictsOn(map, u) == { i \in 1..Len(map) : map[i].localUpdate.id = u }

\* every call a client can make in the current state, with the manager it
\* leaves behind
Outcomes ==
  { [op |-> "applyUpdate", args |-> <<d, cr>>,
     m |-> applyUpdate(Manager, [data |-> d, conflictResolution |-> cr], nextUpdate)] :
       d \in LocalPayloads, cr \in UpdateStrategies }
  \cup
  { [op |-> "resolveUpdate", args |-> <<u, ok, sd>>,
     m |-> resolveUpdate(Manager, u, ok, sd, nextConflict)] :
       u \in 1..MaxUpdates, ok \in BOOLEAN, sd \in ServerDatas }
  \cup
  { [op |-> "resolveConflict", args |-> <<c, r>>,
     m |-> resolveConflict(Manager, c, r)] :
       c \in 1..MaxConflicts, r \in Strategies }
  \cup
  { [op |-> "clearPendingUpdates", args |-> << >>, m |-> clearPendingUpdates(Manager)] }
  \cup
  { [op |-> "subscribe", args |-> <<cb>>, m |-> subscribe(Manager, cb)] : cb \in Subs }
  \cup
  { [op |-> "unsubscribe", args |-> <<cb>>, m |-> unsubscribe(Manager, cb)] : cb \in Subs }
  \cup
  { [op |-> "subscribeToConflicts", args |-> <<cb>>,
     m |-> subscribeToConflicts(Manager, cb)] : cb \in ConflictSubs }
  \cup
  { [op |-> "unsubscribeConflicts", args |-> <<cb>>,
     m |-> unsubscribeConflicts(Manager, cb)] : cb \in ConflictSubs }

\* ---------------------------------------------------------------------- C1
\* C1 as stated: every update that is in the ledger or in a conflict is in
\* exactly one of the two, never in both.
C1_ExactlyOne ==
  \A u \in LedgerIds \cup ConflictedIds : ~(u \in LedgerIds /\ u \in ConflictedIds)

\* the call o settles update u: resolveUpdate on u's id, resolveConflict with a
\* resolving strategy on a conflict that holds u, or clearPendingUpdates
Settles(o, u) ==
  \/ o.op = "resolveUpdate" /\ o.args[1] = u
  \/ /\ o.op = "resolveConflict"
     /\ o.args[2].strategy # "manual"
     /\ MapHas(conflicts, o.args[1])
     /\ MapGet(conflicts, o.args[1]).localUpdate.id = u
  \/ o.op = "clearPendingUpdates"

\* C1 (amended): an outstanding update is in the ledger, in a conflict's
\* localUpdate, or in both; it is never in neither while outstanding: whatever
\* call is made next, an update leaves both collections only through a call
\* that settles it, and a conflict is only ever made for an update that the
\* ledger holds at that moment (so it starts out in both).
C1_LedgerOrConflict ==
  \A o \in Outcomes :
    /\ \A u \in (LedgerIds \cup ConflictedIds)
                  \ (LedgerIdsOf(o.m) \cup ConflictedIdsOf(o.m)) : Settles(o, u)
    /\ \A u \in ConflictedIdsOf(o.m) \ ConflictedIds :
         u \in LedgerIds /\ u \in LedgerIdsOf(o.m)

\* C1 witness: resolveUpdate(id, false, serverData) has run and its update is
\* in the ledger and in a conflict at once, beside another update that is in
\* the ledger only.
C1_Witness ==
  /\ last.op = "resolveUpdate"
  /\ last.made # << >>
  /\ last.args[1] \in LedgerIds \cap ConflictedIds
  /\ LedgerIds \ ConflictedIds # {}

\* ---------------------------------------------------------------------- C2
\* the deliveries of one kind in a call's trace, in emission order
Deliveries(out, kind) == SelectSeq(out, LAMBDA e : e.kind = kind)
\* those that went to one subscriber
DeliveriesTo(out, kind, sub) ==
  SelectSeq(out, LAMBDA e : e.kind = kind /\ e.to = sub)

\* C2 as stated: a resolveUpdate(id, false, serverData) call with serverData
\* supplied, on a ledger update that has no conflict yet, leaves exactly one
\* Conflict referencing that update in the conflict set.
C2_ExactlyOneConflict ==
  [][ ( /\ last'.op = "resolveUpdate"
        /\ last'.args[1] \in LedgerIds
        /\ ConflictsOn(conflicts, last'.args[1]) = {}
        /\ ~last'.args[2]
        /\ last'.args[3] # Undefined )
      => Cardinality(ConflictsOn(conflicts', last'.args[1])) = 1 ]_vars

\* C2 (amended): a Conflict is made only by resolveUpdate(id, false,
\* serverData) on an update that is in the ledger with a truthy serverData;
\* such a call makes exactly one Conflict, pending, holding that update and
\* that serverData, and the Conflict is still in the conflict set when the call
\* returns unless the update carries a last-writer-wins, merge or
\* version-based strategy, in which case it is resolved and deleted within the
\* call; resolveUpdate with success, or with failure and a missing or falsy
\* serverData, never makes a Conflict and leaves the conflict set as it was.
C2_ConflictCreation ==
  /\ \A o \in Outcomes :
       /\ ConflictIdsOf(o.m) \ ConflictIdsOf(Manager) \subseteq Range(o.m.made)
       /\ o.m.made # << >> =>
            /\ o.op = "resolveUpdate"
            /\ o.args[1] \in LedgerIds
            /\ ~o.args[2]
            /\ Truthy(o.args[3])
  /\ \A u \in LedgerIds, sd \in RemoteObjects :
       LET m == resolveUpdate(Manager, u, FALSE, sd, nextConflict)
           update == MapGet(updates, u)
           made == [id |-> nextConflict, localUpdate |-> update,
                    remoteData |-> sd, resolution |-> "pending"]
           kept == \/ update.conflictResolution = Undefined
                   \/ update.conflictResolution.strategy = "manual"
       IN  /\ m.made = <<nextConflict>>
           /\ \A i \in 1..Len(conflictSubscribers) :
                LET first == DeliveriesTo(m.out, "conflicts", conflictSubscribers[i])[1]
                IN  first.list = Append(getActiveConflicts(Manager), made)
           /\ kept =>
                /\ Len(m.conflicts) = Len(conflicts) + 1
                /\ SubSeq(m.conflicts, 1, Len(conflicts)) = conflicts
                /\ m.conflicts[Len(m.conflicts)].id = nextConflict
                /\ m.conflicts[Len(m.conflicts)].localUpdate = update
                /\ m.conflicts[Len(m.conflicts)].remoteData = sd
           /\ ~kept => m.conflicts = conflicts
  /\ \A u \in 1..MaxUpdates, ok \in BOOLEAN, sd \in ServerDatas :
       (ok \/ ~Truthy(sd)) =>
         LET m == resolveUpdate(Manager, u, ok, sd, nextConflict)
         IN  m.made = << >> /\ m.conflicts = conflicts

\* C2 witness: a failed resolveUpdate with serverData has made a Conflict that
\* is in the conflict set and holds the update the call named.
C2_Witness ==
  /\ last.op = "resolveUpdate"
  /\ ~last.args[2]
  /\ Len(last.made) = 1
  /\ MapHas(conflicts, last.made[1])
  /\ MapGet(conflicts, last.made[1]).localUpdate.id = last.args[1]
  /\ MapGet(conflicts, last.made[1]).remoteData = last.args[3]

\* ---------------------------------------------------------------------- C3
\* C3: on an empty ledger, applyUpdate followed immediately by
\* resolveUpdate(id, true) leaves the ledger empty, and of the "ledger changed"
\* notifications the two calls deliver to a subscriber exactly one carries an
\* empty list: the only one resolveUpdate sends (no conflict notification is
\* sent at all).
C3_ApplyThenSuccess ==
  updates = << >> =>
    \A d \in LocalPayloads, cr \in UpdateStrategies :
      LET m1 == applyUpdate(Manager, [data |-> d, conflictResolution |-> cr],
                            nextUpdate)
          m2 == resolveUpdate([m1 EXCEPT !.out = << >>], nextUpdate, TRUE,
                              Undefined, nextConflict)
      IN  /\ m2.updates = << >>
          /\ m2.out = [i \in 1..Len(subscribers) |->
                         [kind |-> "ledger", to |-> subscribers[i], list |-> << >>]]
          /\ \A i \in 1..Len(subscribers) :
               LET got == DeliveriesTo(m1.out \o m2.out, "ledger", subscribers[i])
               IN  Cardinality({ k \in 1..Len(got) : got[k].list = << >> }) = 1

\* C3 witness: the only update ever applied has just been resolved with
\* success, and a registered subscriber was told of the empty ledger.
C3_Witness ==
  /\ nextUpdate = 2
  /\ last.op = "resolveUpdate"
  /\ last.args[1] = 1 /\ last.args[2]
  /\ updates = << >>
  /\ subscribers # << >>
  /\ last.out = [i \in 1..Len(subscribers) |->
                   [kind |-> "ledger", to |-> subscribers[i], list |-> << >>]]

\* ---------------------------------------------------------------------- C4
\* C4: resolveUpdate(id, false) with no serverData on an update in the ledger
\* deletes exactly that ledger entry, makes no Conflict, leaves the conflict
\* set unchanged and sends no conflict notification.
C4_FailureWithoutData ==
  \A u \in LedgerIds :
    LET m == resolveUpdate(Manager, u, FALSE, Undefined, nextConflict)
    IN  /\ u \notin LedgerIdsOf(m)
        /\ m.updates = SelectSeq(updates, LAMBDA e : e.id # u)
        /\ m.made = << >>
        /\ m.conflicts = conflicts
        /\ Deliveries(m.out, "conflicts") = << >>
        /\ Deliveries(m.out, "applied") = << >>

\* C4 witness: resolveUpdate(id, false) without serverData has run on a ledger
\* entry (its trailing notification went out) while a conflict and another
\* ledger entry exist.
C4_Witness ==
  /\ last.op = "resolveUpdate"
  /\ ~last.args[2]
  /\ last.args[3] = Undefined
  /\ last.out # << >>
  /\ last.args[1] \notin LedgerIds
  /\ conflicts # << >>
  /\ updates # << >>

\* ---------------------------------------------------------------------- C5
\* update u has been applied and is neither in the ledger nor in a conflict
Terminal(u) == u < nextUpdate /\ u \notin LedgerIds /\ u \notin ConflictedIds

C6_OneConflictPerUpdate ==
  \A i, j \in 1..Len(conflicts) :
    conflicts[i].localUpdate.id = conflicts[j].localUpdate.id => i = j

\* ---------------------------------------------------------------------- C7
\* C7 as stated: a call of applyUpdate, resolveUpdate or resolveConflict that
\* changes the ledger delivers exactly one "ledger changed" notification to
\* each registered ledger subscriber, in registration order, and one that
\* changes the conflict set exactly one "conflict list changed" notification
\* to each registered conflict subscriber.
C7_OncePerTransition ==
  [][ last'.op \in {"applyUpdate", "resolveUpdate", "resolveConflict"} =>
        /\ updates' # updates =>
             Deliveries(last'.out, "ledger") =
               [i \in 1..Len(subscribers) |->
                  [kind |-> "ledger", to |-> subscribers[i], list |-> updates']]
        /\ conflicts' # conflicts =>
             Deliveries(last'.out, "conflicts") =
               [i \in 1..Len(conflictSubscribers) |->
                  [kind |-> "conflicts", to |-> conflictSubscribers[i],
                   list |-> conflicts']] ]_vars

\* ---------------------------------------------------------------------- C8
\* C8: resolveConflict of a conflict in the conflict set with last-writer-wins,
\* merge or version-based hands over the resolved data once (for
\* last-writer-wins, the local payload), deletes that conflict and deletes the
\* ledger entry of its update, so neither getActiveConflicts nor
\* getPendingUpdates reports them afterwards.
C8_AutomaticResolution ==
  \A i \in 1..Len(conflicts), r \in Strategies :
    r.strategy # "manual" =>
      LET c == conflicts[i]
          m == resolveConflict(Manager, c.id, r)
          applied == Deliveries(m.out, "applied")
      IN  /\ Len(applied) = 1
          /\ applied[1].update = c.localUpdate.id
          /\ r.strategy = "last-writer-wins" => applied[1].data = c.localUpdate.data
          /\ m.out[1].kind = "applied"
          /\ \A k \in 1..Len(getActiveConflicts(m)) :
               getActiveConflicts(m)[k].id # c.id
          /\ m.conflicts = SelectSeq(conflicts, LAMBDA e : e.id # c.id)
          /\ \A k \in 1..Len(getPendingUpdates(m)) :
               getPendingUpdates(m)[k].id # c.localUpdate.id
          /\ m.updates = SelectSeq(updates, LAMBDA e : e.id # c.localUpdate.id)

\* C8 witness: resolveConflict has just resolved a conflict whose update was
\* still in the ledger; both are gone, another conflict and another ledger
\* entry remain.
C8_Witness ==
  /\ last.op = "resolveConflict"
  /\ last.args[2].strategy # "manual"
  /\ Deliveries(last.out, "applied") # << >>
  /\ Len(Deliveries(last.out, "ledger")) > 0
  /\ ~MapHas(conflicts, last.args[1])
  /\ Deliveries(last.out, "applied")[1].update \notin LedgerIds
  /\ Deliveries(last.out, "applied")[1].update < nextUpdate
  /\ conflicts # << >>
  /\ updates # << >>

\* ---------------------------------------------------------------------- C9
\* C9: resolveConflict with strategy manual on a conflict of the conflict set
\* only marks it manual: no resolved data is handed over, the ledger and every
\* other conflict are as before, and the conflict is in the active set; and a
\* conflict in manual status stays in the active set, still manual, through
\* every call except a resolveConflict on its id with last-writer-wins, merge
\* or version-based.
C9_ManualKeepsConflict ==
  /\ \A i \in 1..Len(conflicts) :
       LET c == conflicts[i]
           m == resolveConflict(Manager, c.id, [strategy |-> "manual"])
       IN  /\ Deliveries(m.out, "applied") = << >>
           /\ m.updates = updates
           /\ m.conflicts = [conflicts EXCEPT ![i].resolution = "manual"]
           /\ m.conflicts[i] \in Range(getActiveConflicts(m))
           /\ m.made = << >>
  /\ \A o \in Outcomes :
       \A i \in 1..Len(conflicts) :
         ( /\ conflicts[i].resolution = "manual"
           /\ ~( /\ o.op = "resolveConflict"
                 /\ o.args[1] = conflicts[i].id
                 /\ o.args[2].strategy # "manual" ) )
         => conflicts[i] \in Range(getActiveConflicts(o.m))

\* C9 witness: resolveConflict(id, manual) has run on a conflict whose update
\* is in the ledger; the conflict is in the set with status manual.
C9_Witness ==
  /\ last.op = "resolveConflict"
  /\ last.args[2].strategy = "manual"
  /\ MapHas(conflicts, last.args[1])
  /\ MapGet(conflicts, last.args[1]).resolution = "manual"
  /\ MapGet(conflicts, last.args[1]).localUpdate.id \in LedgerIds
  /\ last.out # << >>

\* --------------------------------------------------------------------- C10
\* C10: resolveConflict on a conflictId that is not in the conflict set (never
\* made, or resolved before) changes nothing and sends nothing; and running
\* resolveConflict a second time with the same id and strategy leaves the
\* ledger and the conflict set as the first run left them (after a resolving
\* strategy the second run sends nothing either).
C10_ResolveMissingIsNoOp ==
  /\ \A c \in 1..MaxConflicts, r \in Strategies :
       ~MapHas(conflicts, c) => resolveConflict(Manager, c, r) = Manager
  /\ \A c \in 1..MaxConflicts, r \in Strategies :
       LET m1 == resolveConflict(Manager, c, r)
           m2 == resolveConflict([m1 EXCEPT !.out = << >>], c, r)
       IN  /\ m2.updates = m1.updates
           /\ m2.conflicts = m1.conflicts
           /\ r.strategy # "manual" => m2.out = << >>

\* C10 witness: resolveConflict has run on the id of a conflict that was made
\* and resolved earlier; with observers registered on both lists it sent
\* nothing, and the conflict set still holds another conflict.
C10_Witness ==
  /\ last.op = "resolveConflict"
  /\ last.args[1] < nextConflict
  /\ ~MapHas(conflicts, last.args[1])
  /\ subscribers # << >>
  /\ conflictSubscribers # << >>
  /\ last.out = << >>
  /\ conflicts # << >>
  /\ updates # << >>

\* --------------------------------------------------------------------- C11
\* the entries of map a other than key, as map b holds them
KeepsOthers(a, b, key) ==
  \A i \in 1..Len(a) :
    a[i].id # key => MapHas(b, a[i].id) /\ MapGet(b, a[i].id) = a[i]

\* C11: resolveConflict on a conflict of the conflict set, with any strategy,
\* leaves every other conflict and every ledger entry other than the
\* conflict's own localUpdate as it was and adds none; and for any two
\* distinct conflicts and any two strategies, resolving them in either order
\* ends with the same ledger and the same conflict set.
C11_ResolveConflictFrame ==
  /\ \A c \in 1..MaxConflicts, r \in Strategies :
       MapHas(conflicts, c) =>
         LET m == resolveConflict(Manager, c, r)
             own == MapGet(conflicts, c).localUpdate.id
         IN  /\ KeepsOthers(conflicts, m.conflicts, c)
             /\ KeepsOthers(updates, m.updates, own)
             /\ ConflictIdsOf(m) \subseteq ConflictIdsOf(Manager)
             /\ LedgerIdsOf(m) \subseteq LedgerIds
  /\ Len(conflicts) >= 2 =>
       \A c1, c2 \in ConflictIdsOf(Manager), r1, r2 \in Strategies :
         c1 < c2 =>
           LET a == resolveConflict(resolveConflict(Manager, c1, r1), c2, r2)
               b == resolveConflict(resolveConflict(Manager, c2, r2), c1, r1)
           IN  a.updates = b.updates /\ a.conflicts = b.conflicts

\* C11 witness: resolveConflict has resolved one of two conflicts (its
\* resolved data was applied); the other conflict is still in the conflict
\* set and that conflict's own update is still in the ledger.
C11_Witness ==
  /\ last.op = "resolveConflict"
  /\ \E i \in 1..Len(last.out) : last.out[i].kind = "applied"
  /\ ~MapHas(conflicts, last.args[1])
  /\ \E i \in 1..Len(conflicts) : conflicts[i].localUpdate.id \in LedgerIds

\* ============================================== the resolver, wide inputs
\* The same manager driven through MaxResolveUpdates updates, each failing
\* into at most one conflict, with the payloads, server data and strategies
\* the resolver's switch distinguishes.
MaxResolveUpdates == 1
MaxVersion == 3

\* local payloads: one that shares a field with the server data, one that
\* carries a version field of its own
ResolverPayloads == { [x |-> 1, y |-> 1], [x |-> 1, version |-> MaxVersion] }
\* server data without a version and with each version 0..MaxVersion
ResolverRemotes ==
  { [x |-> 2, z |-> 2] } \cup
  { [x |-> 2, z |-> 2, version |-> v] : v \in 0..MaxVersion }
\* strategies: each case of the switch, version-based without a version and
\* with each version 0..MaxVersion
ResolverStrategies ==
  { [strategy |-> "last-writer-wins"],
    [strategy |-> "merge"],
    [strategy |-> "merge", mergeFunction |-> "hookMerge"],
    [strategy |-> "merge", mergeFunction |-> "preferRemote"],
    [strategy |-> "manual"],
    [strategy |-> "version-based"] } \cup
  { [strategy |-> "version-based", version |-> v] : v \in 0..MaxVersion }

Resolver_applyUpdate ==
  \E data \in ResolverPayloads :
    /\ nextUpdate <= MaxResolveUpdates
    /\ Return(applyUpdate(Manager, [data |-> data, conflictResolution |-> Undefined],
                          nextUpdate),
              "applyUpdate", <<data, Undefined>>, nextUpdate)
    /\ nextUpdate' = nextUpdate + 1
    /\ rd' = NoResolution
    /\ UNCHANGED <<hookVars, engineVars, serviceVars>>

Resolver_resolveUpdate ==
  \E updateId \in 1..MaxResolveUpdates, serverData \in ResolverRemotes :
    LET m == resolveUpdate(Manager, updateId, FALSE, serverData, nextConflict)
    IN  /\ m.made # << >> => nextConflict <= MaxResolveUpdates
        /\ Return(m, "resolveUpdate", <<updateId, FALSE, serverData>>, 0)
        /\ rd' = NoResolution
        /\ UNCHANGED <<nextUpdate, hookVars, engineVars, serviceVars>>

\* rd keeps what the switch of the call was given and what it handed to
\* applyResolvedData
Resolver_resolveConflict ==
  \E conflictId \in 1..MaxResolveUpdates, resolution \in ResolverStrategies :
    LET m == resolveConflict(Manager, conflictId, resolution)
        applied == SelectSeq(m.out, LAMBDA e : e.kind = "applied")
    IN  /\ Return(m, "resolveConflict", <<conflictId, resolution>>, 0)
        /\ rd' = IF applied # << >>
                 THEN [conflict |-> MapGet(conflicts, conflictId),
                       resolution |-> resolution,
                       resolvedData |-> applied[1].data]
                 ELSE NoResolution
        /\ UNCHANGED <<nextUpdate, hookVars, engineVars, serviceVars>>

NextResolver ==
  \/ Resolver_applyUpdate
  \/ Resolver_resolveUpdate
  \/ Resolver_resolveConflict

SpecResolver == Init /\ [][NextResolver]_vars

\* --------------------------------------------------------------------- C12
\* the version a side carries, a missing one counting as 0
VersionOf(obj) == IF "version" \in DOMAIN obj THEN obj.version ELSE 0

\* C12: a version-based resolution compares the version of the strategy with
\* remoteData.version, a missing version on either side counting as 0; when
\* the strategy's version is higher the resolved data is the whole local
\* payload, when the remote version is higher it is the whole remote data,
\* and it is never anything but one of the two (no merge of fields). Local 2
\* against remote 1 gives the local payload, local 1 against remote 2 the
\* remote data.
C12_VersionBased ==
  (rd # NoResolution /\ rd.resolution.strategy = "version-based") =>
    LET local == rd.conflict.localUpdate.data
        remote == rd.conflict.remoteData
        localVersion == VersionOf(rd.resolution)
        remoteVersion == VersionOf(remote)
    IN  /\ localVersion > remoteVersion => rd.resolvedData = local
        /\ localVersion < remoteVersion => rd.resolvedData = remote
        /\ rd.resolvedData \in {local, remote}

\* C12 witness: a conflict whose remote data has version 1 was resolved
\* version-based with version 2, and the resolved data is the local payload,
\* which differs from the remote data.
C12_Witness ==
  /\ rd # NoResolution
  /\ rd.resolution = [strategy |-> "version-based", version |-> 2]
  /\ VersionOf(rd.conflict.remoteData) = 1
  /\ rd.resolvedData = rd.conflict.localUpdate.data
  /\ rd.resolvedData # rd.conflict.remoteData

\* --------------------------------------------------------------------- C13
\* C13: a merge resolution without a merge function yields the record that
\* has every field of the remote data and of the local payload, each field of
\* the local payload with the local value and every other field with the
\* remote value; with a merge function it yields exactly what that function
\* returns for (local payload, remote data).
C13_Merge ==
  (rd # NoResolution /\ rd.resolution.strategy = "merge") =>
    LET local == rd.conflict.localUpdate.data
        remote == rd.conflict.remoteData
    IN  IF "mergeFunction" \in DOMAIN rd.resolution
        THEN rd.resolvedData =
               CallMergeFunction(rd.resolution.mergeFunction, local, remote)
        ELSE /\ DOMAIN rd.resolvedData = (DOMAIN local) \cup (DOMAIN remote)
             /\ \A f \in DOMAIN rd.resolvedData :
                  rd.resolvedData[f] =
                    IF f \in DOMAIN local THEN local[f] ELSE remote[f]

\* C13 witness: a conflict between the local payload {x: 1, y: 1} and remote
\* data that holds another x and a field z was resolved by merge without a
\* merge function: the result has the local x and y and the remote z.
C13_Witness ==
  /\ rd # NoResolution
  /\ rd.resolution = [strategy |-> "merge"]
  /\ rd.conflict.localUpdate.data = [x |-> 1, y |-> 1]
  /\ rd.conflict.remoteData = [x |-> 2, z |-> 2]
  /\ rd.resolvedData = [x |-> 1, y |-> 1, z |-> 2]

\* --------------------------------------------------------------------- C14
\* C14: a last-writer-wins resolution yields the local update's payload
\* whatever the remote data is, and when the call returns neither the
\* conflict is in the conflict set nor its update in the ledger.
C14_LastWriterWins ==
  (rd # NoResolution /\ rd.resolution.strategy = "last-writer-wins") =>
    /\ rd.resolvedData = rd.conflict.localUpdate.data
    /\ ~MapHas(conflicts, rd.conflict.id)
    /\ ~MapHas(updates, rd.conflict.localUpdate.id)

\* C14 witness: a conflict whose remote data carries a version and differs
\* from the local payload was resolved last-writer-wins: the local payload
\* was handed on and the conflict set and the ledger are empty.
C14_Witness ==
  /\ rd # NoResolution
  /\ rd.resolution.strategy = "last-writer-wins"
  /\ VersionOf(rd.conflict.remoteData) = MaxVersion
  /\ rd.resolvedData = rd.conflict.localUpdate.data
  /\ rd.resolvedData # rd.conflict.remoteData
  /\ conflicts = << >>
  /\ updates = << >>

\* ================================================= the hooks, real ids
\* applyUpdate as the optimistic hooks call it, with the id the code builds:
\* `update_${Date.now()}_${Math.random().toString(36).substr(2, 9)}`. The
\* clock never runs backwards and may stand still between two calls; the
\* random suffix is any of the strings Math.random can yield, of which the
\* model draws MaxRandom.
MaxNow == 2
MaxRandom == 2

\* the conflictResolution of the hooks: useOptimisticAnnotations and
\* useOptimisticChat, useOptimisticFilters
HookResolutions ==
  { [strategy |-> "last-writer-wins"],
    [strategy |-> "merge", mergeFunction |-> "hookMerge"] }

\* a hook whose catch block does nothing
HookResolve_OnlyOnSuccess(m, updateId, success, conflictId) ==
  IF success THEN resolveUpdate(m, updateId, TRUE, Undefined, conflictId) ELSE m

\* getOptimisticUpdateManager().resolveUpdate(updateId, true) after the
\* await, resolveUpdate(updateId, false) in the catch: no serverData
HookResolve(m, updateId, success, conflictId) ==
  resolveUpdate(m, updateId, success, Undefined, conflictId)

\* the first half of a hook such as optimisticAddAnnotation: applyUpdate
\* returns the id, and the mutation is awaited afterwards
Hook_applyOptimisticUpdate ==
  \E data \in ResolverPayloads, t \in now..MaxNow, r \in 1..MaxRandom,
     cr \in HookResolutions :
    LET updateId == <<t, r>>
    IN  /\ nextUpdate <= MaxUpdates
        /\ Return(applyUpdate(Manager, [data |-> data, conflictResolution |-> cr],
                              updateId),
                  "applyUpdate", <<data, cr>>, updateId)
        /\ nextUpdate' = nextUpdate + 1
        /\ now' = t
        /\ inflight' = Append(inflight, updateId)
        /\ UNCHANGED <<resolverVars, engineVars, serviceVars>>

\* the second half: the awaited mutation settles and the hook calls
\* resolveUpdate(updateId, true) or, in its catch, resolveUpdate(updateId, false)
Hook_mutationSettles ==
  \E i \in 1..Len(inflight), success \in BOOLEAN :
    /\ Return(HookResolve(Manager, inflight[i], success, nextConflict),
              "resolveUpdate", <<inflight[i], success, Undefined>>, 0)
    /\ inflight' = [j \in 1..(Len(inflight) - 1) |->
                      IF j < i THEN inflight[j] ELSE inflight[j + 1]]
    /\ UNCHANGED <<nextUpdate, now, resolverVars, engineVars, serviceVars>>

NextHooks ==
  \/ Hook_applyOptimisticUpdate
  \/ Hook_mutationSettles
  \/ Call_subscribe

SpecHooks == Init /\ [][NextHooks]_vars

\* --------------------------------------------------------------------- C15
\* C15 as stated: every applyUpdate call stores its update under an id that
\* no ledger entry has yet, so the ledger keeps its entries and grows by
\* exactly one, the new one, which every ledger subscriber is handed in the
\* list of the call's notification, and the id is returned while the mutation
\* of the update is still awaited.
C15_FreshId ==
  [][ last'.op = "applyUpdate" =>
        /\ ~MapHas(updates, last'.ret)
        /\ Len(updates') = Len(updates) + 1
        /\ SubSeq(updates', 1, Len(updates)) = updates
        /\ updates'[Len(updates')].id = last'.ret
        /\ \A i \in 1..Len(subscribers) :
             LET got == DeliveriesTo(last'.out, "ledger", subscribers[i])
             IN  Len(got) = 1 /\ MapHas(got[1].list, last'.ret)
        /\ last'.ret \in Range(inflight') ]_vars

LimbBits == 15
LimbBase == 2 ^ LimbBits
MantissaBits == 53

Limb(a, i) == IF i <= Len(a) THEN a[i] ELSE 0

RECURSIVE BnTrim(_)
BnTrim(a) ==
  IF a = << >> THEN a
  ELSE IF a[Len(a)] = 0 THEN BnTrim(SubSeq(a, 1, Len(a) - 1)) ELSE a

RECURSIVE BnFromNat(_)
BnFromNat(n) ==
  IF n = 0 THEN << >> ELSE <<n % LimbBase>> \o BnFromNat(n \div LimbBase)

RECURSIVE BnAddFrom(_, _, _, _)
BnAddFrom(a, b, i, carry) ==
  IF i > Len(a) /\ i > Len(b)
  THEN IF carry = 0 THEN << >> ELSE <<carry>>
  ELSE LET t == Limb(a, i) + Limb(b, i) + carry
       IN  <<t % LimbBase>> \o BnAddFrom(a, b, i + 1, t \div LimbBase)
BnAdd(a, b) == BnAddFrom(a, b, 1, 0)

\* a - b for a >= b
RECURSIVE BnSubFrom(_, _, _, _)
BnSubFrom(a, b, i, borrow) ==
  IF i > Len(a) THEN << >>
  ELSE LET t == Limb(a, i) - Limb(b, i) - borrow
       IN  IF t < 0
           THEN <<t + LimbBase>> \o BnSubFrom(a, b, i + 1, 1)
           ELSE <<t>> \o BnSubFrom(a, b, i + 1, 0)
BnSub(a, b) == BnTrim(BnSubFrom(a, b, 1, 0))

\* -1, 0, 1 as a < b, a = b, a > b
RECURSIVE BnCmpFrom(_, _, _)
BnCmpFrom(a, b, i) ==
  IF i = 0 THEN 0
  ELSE IF a[i] < b[i] THEN -1
  ELSE IF a[i] > b[i] THEN 1
  ELSE BnCmpFrom(a, b, i - 1)
BnCmp(a, b) ==
  IF Len(a) < Len(b) THEN -1
  ELSE IF Len(a) > Len(b) THEN 1
  ELSE BnCmpFrom(a, b, Len(a))

\* a * k for a limb k
RECURSIVE BnMulLimbFrom(_, _, _, _)
BnMulLimbFrom(a, k, i, carry) ==
  IF i > Len(a)
  THEN IF carry = 0 THEN << >> ELSE <<carry>>
  ELSE LET t == a[i] * k + carry
       IN  <<t % LimbBase>> \o BnMulLimbFrom(a, k, i + 1, t \div LimbBase)
BnMulLimb(a, k) == IF k = 0 THEN << >> ELSE BnMulLimbFrom(a, k, 1, 0)

BnShiftLimbs(a, n) == IF a = << >> THEN a ELSE [i \in 1..n |-> 0] \o a

RECURSIVE BnMulFrom(_, _, _)
BnMulFrom(a, b, j) ==
  IF j > Len(b) THEN << >>
  ELSE BnAdd(BnShiftLimbs(BnMulLimb(a, b[j]), j - 1), BnMulFrom(a, b, j + 1))
BnMul(a, b) == BnMulFrom(a, b, 1)

\* a * 2^k
BnShiftLeft(a, k) ==
  BnShiftLimbs(BnMulLimb(a, 2 ^ (k % LimbBits)), k \div LimbBits)

\* floor(a / 2^k)
BnShiftRight(a, k) ==
  LET n == k \div LimbBits
      r == k % LimbBits
      d == IF n >= Len(a) THEN << >> ELSE SubSeq(a, n + 1, Len(a))
  IN  BnTrim([i \in 1..Len(d) |->
                (d[i] \div (2 ^ r)) + (Limb(d, i + 1) % (2 ^ r)) * (2 ^ (LimbBits - r))])

\* number of bits of a limb, of a natural
RECURSIVE LimbBitLen(_)
LimbBitLen(x) == IF x = 0 THEN 0 ELSE 1 + LimbBitLen(x \div 2)
BnBitLen(a) ==
  IF a = << >> THEN 0 ELSE (Len(a) - 1) * LimbBits + LimbBitLen(a[Len(a)])

BnIsOdd(a) == a # << >> /\ a[1] % 2 = 1
BnOne == <<1>>

\* ---- Numbers: NaN, the two infinities, zero, and sign * m * 2^e with a
\* mantissa m of exactly MantissaBits bits; a Number is a multiple of
\* 2^MinExponent and less than 2^(MaxExponent + MantissaBits) in size
NaN == [k |-> "NaN"]
Infinity(s) == [k |-> "Infinity", s |-> s]
Zero == [k |-> "zero"]
Finite(s, m, e) == [k |-> "finite", s |-> s, m |-> m, e |-> e]
MinExponent == -1074
MaxExponent == 971

\* s * q * 2^u with the mantissa brought to MantissaBits bits, for a natural
\* q of at most MantissaBits + 1 bits that needs no rounding; what is too
\* large is an infinity
Normalised(s, q, u) ==
  IF q = << >> THEN Zero
  ELSE IF u + BnBitLen(q) - MantissaBits > MaxExponent THEN Infinity(s)
  ELSE IF BnBitLen(q) > MantissaBits
  THEN Finite(s, BnShiftRight(q, 1), u + 1)
  ELSE Finite(s, BnShiftLeft(q, MantissaBits - BnBitLen(q)),
              u - (MantissaBits - BnBitLen(q)))

\* n / 2^sh rounded to a natural, ties to even
RoundedShift(n, sh) ==
  LET q == BnShiftRight(n, sh)
      c == BnCmp(BnSub(n, BnShiftLeft(q, sh)), BnShiftLeft(BnOne, sh - 1))
  IN  IF c > 0 \/ (c = 0 /\ BnIsOdd(q)) THEN BnAdd(q, BnOne) ELSE q

\* the exponent of the last place of the Number nearest to n * 2^e
LastPlace(n, e) ==
  IF e + BnBitLen(n) - MantissaBits < MinExponent THEN MinExponent
  ELSE e + BnBitLen(n) - MantissaBits

\* the Number nearest to s * n * 2^e for a natural n > 0, ties to even
RoundToNumber(s, n, e) ==
  IF LastPlace(n, e) <= e THEN Normalised(s, n, e)
  ELSE Normalised(s, RoundedShift(n, LastPlace(n, e) - e), LastPlace(n, e))

\* an integer literal or integer-valued input
NumberOf(i) ==
  IF i = 0 THEN Zero
  ELSE IF i < 0 THEN RoundToNumber(-1, BnFromNat(-i), 0)
  ELSE RoundToNumber(1, BnFromNat(i), 0)

NumNeg(x) ==
  CASE x.k = "finite" -> Finite(-x.s, x.m, x.e)
    [] x.k = "Infinity" -> Infinity(-x.s)
    [] OTHER -> x

\* -1, 0, 1 as x < y, x = y, x > y, for x and y other than NaN
NumSign(x) == CASE x.k = "zero" -> 0 [] OTHER -> x.s
NumCmpMagnitude(x, y) ==
  IF x.e < y.e THEN -1
  ELSE IF x.e > y.e THEN 1
  ELSE BnCmp(x.m, y.m)
NumCmp(x, y) ==
  IF NumSign(x) < NumSign(y) THEN -1
  ELSE IF NumSign(x) > NumSign(y) THEN 1
  ELSE IF x.k = "zero" THEN 0
  ELSE IF x.k = "Infinity" /\ y.k = "Infinity" THEN 0
  ELSE IF x.k = "Infinity" THEN x.s
  ELSE IF y.k = "Infinity" THEN -y.s
  ELSE x.s * NumCmpMagnitude(x, y)

\* x < y, x <= y, x === y: false when either side is NaN
NumLt(x, y) == x # NaN /\ y # NaN /\ NumCmp(x, y) < 0
NumLe(x, y) == x # NaN /\ y # NaN /\ NumCmp(x, y) <= 0
NumEq(x, y) == x # NaN /\ y # NaN /\ NumCmp(x, y) = 0

\* x + y
NumAdd(x, y) ==
  CASE x = NaN \/ y = NaN -> NaN
    [] x.k = "Infinity" /\ y.k = "Infinity" -> IF x.s = y.s THEN x ELSE NaN
    [] x.k = "Infinity" -> x
    [] y.k = "Infinity" -> y
    [] x.k = "zero" -> y
    [] y.k = "zero" -> x
    [] OTHER ->
         LET e == IF x.e < y.e THEN x.e ELSE y.e
             nx == BnShiftLeft(x.m, x.e - e)
             ny == BnShiftLeft(y.m, y.e - e)
             c == BnCmp(nx, ny)
         IN  IF x.s = y.s THEN RoundToNumber(x.s, BnAdd(nx, ny), e)
             ELSE IF c = 0 THEN Zero
             ELSE IF c > 0 THEN RoundToNumber(x.s, BnSub(nx, ny), e)
             ELSE RoundToNumber(y.s, BnSub(ny, nx), e)

\* x - y
NumSub(x, y) == NumAdd(x, NumNeg(y))

\* x * y
NumMul(x, y) ==
  CASE x = NaN \/ y = NaN -> NaN
    [] x.k = "Infinity" \/ y.k = "Infinity" ->
         IF x.k = "zero" \/ y.k = "zero" THEN NaN ELSE Infinity(x.s * y.s)
    [] x.k = "zero" \/ y.k = "zero" -> Zero
    [] OTHER -> RoundToNumber(x.s * y.s, BnMul(x.m, y.m), x.e + y.e)

\* the quotient is taken to MantissaBits + 2 bits or more, with one more bit
\* that says whether anything is left, and rounded once
GuardBits == MantissaBits + 2

\* long division, bit by bit: n more quotient bits of r / d (a quotient never
\* has more than GuardBits limbs)
RECURSIVE BnDivSteps(_, _, _, _)
BnDivSteps(r, d, q, n) ==
  IF n = 0 \/ Len(q) > GuardBits THEN [q |-> q, r |-> r]
  ELSE LET r2 == BnAdd(r, r)
           q2 == BnAdd(q, q)
       IN  IF BnCmp(r2, d) >= 0
           THEN BnDivSteps(BnSub(r2, d), d, BnAdd(q2, BnOne), n - 1)
           ELSE BnDivSteps(r2, d, q2, n - 1)

\* x / y
NumDiv(x, y) ==
  CASE x = NaN \/ y = NaN -> NaN
    [] x.k = "Infinity" -> IF y.k = "Infinity" THEN NaN
                           ELSE Infinity(x.s * (IF y.k = "zero" THEN 1 ELSE y.s))
    [] y.k = "Infinity" -> Zero
    [] y.k = "zero" -> IF x.k = "zero" THEN NaN ELSE Infinity(x.s)
    [] x.k = "zero" -> Zero
    [] OTHER ->
         LET first == BnCmp(x.m, y.m) >= 0
             d == BnDivSteps(IF first THEN BnSub(x.m, y.m) ELSE x.m, y.m,
                             IF first THEN BnOne ELSE << >>, GuardBits)
             sticky == IF d.r = << >> THEN << >> ELSE BnOne
         IN  RoundToNumber(x.s * y.s, BnAdd(BnAdd(d.q, d.q), sticky),
                           x.e - y.e - GuardBits - 1)

\* floor of the square root of n, bit by bit from bit b down
RECURSIVE BnSqrtSteps(_, _, _)
BnSqrtSteps(n, root, b) ==
  IF b < 0 THEN root
  ELSE LET t == BnAdd(root, BnShiftLeft(BnOne, b))
       IN  IF BnCmp(BnMul(t, t), n) <= 0
           THEN BnSqrtSteps(n, t, b - 1)
           ELSE BnSqrtSteps(n, root, b - 1)

\* Math.sqrt(x)
Math_sqrt(x) ==
  CASE x = NaN -> NaN
    [] x.k = "zero" -> Zero
    [] x.s < 0 -> NaN
    [] x.k = "Infinity" -> x
    [] OTHER ->
         LET k == IF (x.e - GuardBits - 1) % 2 = 0 THEN GuardBits + 1
                  ELSE GuardBits + 2
             n == BnShiftLeft(x.m, k)
             root == BnSqrtSteps(n, << >>, (BnBitLen(n) + 1) \div 2)
             sticky == IF BnMul(root, root) = n THEN << >> ELSE BnOne
         IN  RoundToNumber(1, BnAdd(BnAdd(root, root), sticky),
                           ((x.e - k) \div 2) - 1)

\* Math.abs(x), Math.max(x, y), Math.min(x, y)
Math_abs(x) ==
  CASE x.k = "finite" -> Finite(1, x.m, x.e)
    [] x.k = "Infinity" -> Infinity(1)
    [] OTHER -> x
Math_max(x, y) ==
  IF x = NaN \/ y = NaN THEN NaN ELSE IF NumCmp(x, y) >= 0 THEN x ELSE y
Math_min(x, y) ==
  IF x = NaN \/ y = NaN THEN NaN ELSE IF NumCmp(x, y) <= 0 THEN x ELSE y
\* Math.pow(x, 2): the square, rounded once
Math_pow2(x) == NumMul(x, x)

\* ========================================================== the combiner
\* the literals of computeEnsemblePrediction
One == NumberOf(1)
DefaultUncertainty == NumberOf(25)
UncertaintyScale == NumberOf(50)
Hundred == NumberOf(100)
MinConfidence == NumDiv(NumberOf(1), NumberOf(10))
MaxConfidence == NumDiv(NumberOf(95), NumberOf(100))
zScore == NumDiv(NumberOf(196), NumberOf(100))

\* modelUncertainties[name] || 25: a missing, zero or NaN uncertainty is
\* falsy and replaced
UncertaintyOrDefault(modelUncertainties, name) ==
  IF name \in DOMAIN modelUncertainties
     /\ modelUncertainties[name] \notin {Zero, NaN}
  THEN modelUncertainties[name]
  ELSE DefaultUncertainty

\* 1 / (1 + uncertainty / 50)
Weight(uncertainty) ==
  NumDiv(One, NumAdd(One, NumDiv(uncertainty, UncertaintyScale)))

\* the weight the loop gives to each entry of modelPredictions, in the order
\* of Object.entries
Weights(modelPredictions, modelUncertainties) ==
  [i \in 1..Len(modelPredictions) |->
     Weight(UncertaintyOrDefault(modelUncertainties, modelPredictions[i].name))]

\* acc + list[1] + ... + list[n], left to right, each sum rounded
RECURSIVE SumFrom(_, _, _)
SumFrom(acc, list, i) ==
  IF i > Len(list) THEN acc
  ELSE IF acc = NaN THEN NaN
  ELSE SumFrom(NumAdd(acc, list[i]), list, i + 1)

\* Math.max(...list): -Infinity for the empty list
RECURSIVE MaxFrom(_, _, _)
MaxFrom(acc, list, i) ==
  IF i > Len(list) THEN acc
  ELSE IF acc = NaN THEN NaN
  ELSE MaxFrom(Math_max(acc, list[i]), list, i + 1)

\* lines 302-313: the uncertainty-weighted mean of the model predictions
EnsemblePrediction(modelPredictions, modelUncertainties) ==
  LET weights == Weights(modelPredictions, modelUncertainties)
      weightedSum ==
        SumFrom(Zero, [i \in 1..Len(modelPredictions) |->
                         NumMul(modelPredictions[i].prediction, weights[i])], 1)
      totalWeight == SumFrom(Zero, weights, 1)
  IN  NumDiv(weightedSum, totalWeight)

\* seeded fault: the variance is the sample variance, divided by n - 1
EnsembleUncertainty_SampleVariance(predictions, ensemblePrediction) ==
  LET individualVariances ==
        [i \in 1..Len(predictions) |->
           Math_pow2(NumSub(predictions[i], ensemblePrediction))]
      meanVariance ==
        NumDiv(SumFrom(Zero, individualVariances, 1),
               NumberOf(Len(predictions) - 1))
  IN  Math_sqrt(meanVariance)

\* lines 316-320: the root of the mean squared deviation from the ensemble
\* prediction
EnsembleUncertainty(predictions, ensemblePrediction) ==
  LET individualVariances ==
        [i \in 1..Len(predictions) |->
           Math_pow2(NumSub(predictions[i], ensemblePrediction))]
      meanVariance ==
        NumDiv(SumFrom(Zero, individualVariances, 1), NumberOf(Len(predictions)))
  IN  Math_sqrt(meanVariance)

\* lines 323-325: the confidence, from the agreement between the models
Confidence(predictions, ensemblePrediction, ensembleUncertainty) ==
  LET maxDeviation ==
        MaxFrom(Infinity(-1),
                [i \in 1..Len(predictions) |->
                   Math_abs(NumSub(predictions[i], ensemblePrediction))], 1)
      agreementFactor ==
        Math_max(Zero, NumSub(One, NumDiv(maxDeviation, Hundred)))
  IN  Math_max(MinConfidence,
               Math_min(MaxConfidence,
                        NumMul(agreementFactor,
                               NumSub(One, NumDiv(ensembleUncertainty, Hundred)))))

\* lines 328-333: the 95% confidence interval
ConfidenceInterval(ensemblePrediction, margin) ==
  <<Math_max(Zero, NumSub(ensemblePrediction, margin)),
    NumAdd(ensemblePrediction, margin)>>

\* lines 322-340, once the ensemble prediction and uncertainty are known
EnsembleResult(predictions, ensemblePrediction, ensembleUncertainty) ==
  [prediction |-> ensemblePrediction,
   confidence |-> Confidence(predictions, ensemblePrediction, ensembleUncertainty),
   uncertainty |-> ensembleUncertainty,
   confidenceInterval |->
     ConfidenceInterval(ensemblePrediction, NumMul(zScore, ensembleUncertainty))]

\* lines 315-340, once the ensemble prediction is known
EnsembleResultFor(predictions, ensemblePrediction) ==
  EnsembleResult(predictions, ensemblePrediction,
                 EnsembleUncertainty(predictions, ensemblePrediction))

computeEnsemblePrediction(modelPredictions, modelUncertainties, predictions) ==
  EnsembleResultFor(predictions,
                    EnsemblePrediction(modelPredictions, modelUncertainties))

\* the models of the engine, by name: those of modelConfigs, then further ones
modelConfigs == <<"lstm", "transformer", "cnn">>
ModelName(i) == IF i <= Len(modelConfigs) THEN modelConfigs[i] ELSE ToString(i)

\* the combiner is given up to MaxModels predictions
MaxModels == 3
\* what a model may predict (a model's output is not confined to the AQI
\* range) and the uncertainty it may report
PredictionValues == {-10, 100}
UncertaintyValues == {0, 10}

\* the three arguments predict builds for n models
CombinerCall(n, ps, us) ==
  [modelPredictions |->
     [i \in 1..n |-> [name |-> ModelName(i), prediction |-> NumberOf(ps[i])]],
   modelUncertainties |->
     [name \in { ModelName(i) : i \in 1..n } |->
        NumberOf(us[CHOOSE i \in 1..n : ModelName(i) = name])],
   predictions |-> [i \in 1..n |-> NumberOf(ps[i])],
   result |-> NoCall]

InitCombiner ==
  /\ InitManager
  /\ fc = NoForecast
  /\ InitServices
  /\ \E n \in 0..MaxModels :
       \E ps \in [1..n -> PredictionValues], us \in [1..n -> UncertaintyValues] :
         ens = CombinerCall(n, ps, us)

Call_computeEnsemblePrediction ==
  /\ ens # NoCall
  /\ ens.result = NoCall
  /\ ens' = [ens EXCEPT !.result =
               computeEnsemblePrediction(ens.modelPredictions,
                                         ens.modelUncertainties, ens.predictions)]
  /\ UNCHANGED <<updates, conflicts, subscribers, conflictSubscribers,
                 nextUpdate, nextConflict, last, resolverVars, hookVars, fc, serviceVars>>

NextCombiner == Call_computeEnsemblePrediction

SpecCombiner == InitCombiner /\ [][NextCombiner]_vars

\* the combiner has returned for a list of at least one prediction
Combined == ens # NoCall /\ ens.result # NoCall /\ ens.predictions # << >>
\* all predictions have the same value and all models report the same
\* uncertainty
AllIdentical ==
  /\ \A i \in 1..Len(ens.predictions) : ens.predictions[i] = ens.predictions[1]
  /\ \A i \in 1..Len(ens.modelPredictions) :
       ens.modelUncertainties[ens.modelPredictions[i].name] =
         ens.modelUncertainties[ens.modelPredictions[1].name]

\* --------------------------------------------------------------------- C16
\* C16 as stated: for every non-empty prediction list the combiner returns a
\* confidence interval [lo, hi] with lo <= predicted <= hi and a confidence
\* between 0.1 and 0.95.
C16_IntervalAndConfidence ==
  Combined =>
    /\ NumLe(ens.result.confidenceInterval[1], ens.result.prediction)
    /\ NumLe(ens.result.prediction, ens.result.confidenceInterval[2])
    /\ NumLe(MinConfidence, ens.result.confidence)
    /\ NumLe(ens.result.confidence, MaxConfidence)

\* --------------------------------------------------------------------- C17
\* what the combiner is specified to fail with
InvalidInput == [error |-> "InvalidInput"]

\* C17 as stated: combine on an empty prediction list fails with InvalidInput
\* instead of returning a result.
C17_EmptyIsInvalidInput ==
  (ens # NoCall /\ ens.predictions = << >> /\ ens.result # NoCall) =>
    ens.result = InvalidInput

\* --------------------------------------------------------------------- C18
\* the uncertainty model i reported
Reported(i) == ens.modelUncertainties[ens.modelPredictions[i].name]

\* C18 as stated: the weight of every model is 1 / (1 + u/50) for the
\* uncertainty u it reported, 0 included, so a model that reports a strictly
\* higher uncertainty than another never has the larger weight of the two,
\* and the ensemble mean is sum(prediction * weight) / sum(weight).
C18_WeightsInverse ==
  Combined =>
    LET weights == Weights(ens.modelPredictions, ens.modelUncertainties)
        models == 1..Len(ens.modelPredictions)
    IN  /\ \A i \in models :
             weights[i] =
               NumDiv(One, NumAdd(One, NumDiv(Reported(i), UncertaintyScale)))
        /\ \A i, j \in models :
             NumLt(Reported(j), Reported(i)) => NumLe(weights[i], weights[j])
        /\ ens.result.prediction =
             NumDiv(SumFrom(Zero, [i \in models |->
                                     NumMul(ens.predictions[i], weights[i])], 1),
                    SumFrom(Zero, weights, 1))

RoundingBound(v) ==
  NumMul(Math_abs(v),
         Finite(1, BnShiftLeft(BnOne, MantissaBits - 1), -(MantissaBits - 1) - 50))

ModelType(name) == IF name = "cnn" THEN "onnx" ELSE "tensorflow"

\* monteCarloPrediction(model, inputTensor, 10)
numSamples == 10
\* the uncertainty predict's catch gives to a model whose prediction failed
FallbackUncertainty == NumberOf(25)
\* Math.abs(prediction - input.currentAqi) * 0.2
OnnxUncertaintyFactor == NumDiv(NumberOf(1), NumberOf(5))

\* what a stub does when asked for a prediction: it throws, or it returns a
\* number
Fails == [throws |-> TRUE]
Returns(value) == [throws |-> FALSE, value |-> value]

\* the samples monteCarloPrediction pushes, the first n of them: the stub's
\* output plus noise, or 0 when the stub throws
RECURSIVE Samples(_, _, _)
Samples(stub, noise, n) ==
  IF n = 0 THEN << >>
  ELSE Append(Samples(stub, noise, n - 1),
              IF stub = Fails THEN Zero
              ELSE NumAdd(NumberOf(stub.value), NumberOf(noise[n])))

\* val - mean, squared, for each of the first n samples
RECURSIVE SquaredDeviations(_, _, _)
SquaredDeviations(samples, mean, n) ==
  IF n = 0 THEN << >>
  ELSE Append(SquaredDeviations(samples, mean, n - 1),
              Math_pow2(NumSub(samples[n], mean)))

\* lines 289-291: the mean and the standard deviation of the samples
SampleMean(samples) == NumDiv(SumFrom(Zero, samples, 1), NumberOf(Len(samples)))
SampleStd(samples, mean) ==
  Math_sqrt(NumDiv(SumFrom(Zero, SquaredDeviations(samples, mean, Len(samples)), 1),
                   NumberOf(Len(samples))))
MeanAndStd(samples, mean) == [mean |-> mean, std |-> SampleStd(samples, mean)]

monteCarloPrediction(stub, noise) ==
  LET samples == Samples(stub, noise, numSamples)
  IN  MeanAndStd(samples, SampleMean(samples))

\* what predict's loop records for one model
Recorded(name, prediction, uncertainty) ==
  [name |-> name, prediction |-> prediction, uncertainty |-> uncertainty]
FromMonteCarlo(name, mcPredictions) ==
  Recorded(name, mcPredictions.mean, mcPredictions.std)

\* the body of predict's loop for one model: its prediction and uncertainty
ModelPrediction(name, input, stubs, noise) ==
  IF ModelType(name) = "tensorflow"
  THEN FromMonteCarlo(name, monteCarloPrediction(stubs[name], noise))
  ELSE IF stubs[name] = Fails
  THEN Recorded(name, NumberOf(input.currentAqi), FallbackUncertainty)
  ELSE Recorded(name, NumberOf(stubs[name].value),
                NumMul(Math_abs(NumSub(NumberOf(stubs[name].value),
                                       NumberOf(input.currentAqi))),
                       OnnxUncertaintyFactor))

\* predict's loop over this.models, its first n turns
RECURSIVE ModelPredictions(_, _, _, _)
ModelPredictions(input, stubs, noise, n) ==
  IF n = 0 THEN << >>
  ELSE Append(ModelPredictions(input, stubs, noise, n - 1),
              ModelPrediction(modelConfigs[n], input, stubs, noise))

\* lines 188-197: the PredictionResult predict returns
PredictionResult(models, ensembleResult) ==
  [predictedAqi |-> ensembleResult.prediction,
   confidence |-> ensembleResult.confidence,
   uncertainty |-> ensembleResult.uncertainty,
   modelPredictions |->
     [name \in { models[i].name : i \in 1..Len(models) } \cup {"ensemble"} |->
        IF name = "ensemble" THEN ensembleResult.prediction
        ELSE models[CHOOSE i \in 1..Len(models) : models[i].name = name].prediction],
   confidenceInterval |-> ensembleResult.confidenceInterval]

\* predict, from the outcome of its loop to the PredictionResult
predict(models) ==
  LET modelPredictions ==
        [i \in 1..Len(models) |->
           [name |-> models[i].name, prediction |-> models[i].prediction]]
      modelUncertainties ==
        [name \in { models[i].name : i \in 1..Len(models) } |->
           models[CHOOSE i \in 1..Len(models) : models[i].name = name].uncertainty]
      predictions == [i \in 1..Len(models) |-> models[i].prediction]
  IN  PredictionResult(models,
        computeEnsemblePrediction(modelPredictions, modelUncertainties, predictions))

\* the fallback prediction of generatePredictions' catch, for the random
\* offset (Math.random() - 0.5) * 20
FallbackPrediction(currentAqi, offset) ==
  [predictedAqi |-> NumAdd(NumberOf(currentAqi), NumberOf(offset)),
   confidence |-> NumDiv(NumberOf(1), NumberOf(2)),
   uncertainty |-> NumberOf(25),
   modelPredictions |->
     [name \in { modelConfigs[i] : i \in 1..Len(modelConfigs) } \cup {"ensemble"} |->
        NumberOf(currentAqi)],
   confidenceInterval |->
     <<NumSub(NumberOf(currentAqi), NumberOf(25)),
       NumAdd(NumberOf(currentAqi), NumberOf(25))>>]

\* a forecast covers up to MaxHours hours
MaxHours == 2
\* zone.currentAqi
CurrentAqiValues == {50, 120}
\* what a working stub returns
StubOutputs == {100}
\* the noise monteCarloPrediction adds to its samples, in (-5, 5)
NoisePatterns == { [i \in 1..numSamples |-> IF i % 2 = 0 THEN 1 ELSE -1] }
\* (Math.random() - 0.5) * 20
FallbackOffsets == {-10, 5}
\* the stubs of one predict call: all work, or one of them fails
HourStubs ==
  { [name \in { modelConfigs[i] : i \in 1..Len(modelConfigs) } |->
       IF name = failed THEN Fails ELSE Returns(out)] :
      failed \in { modelConfigs[i] : i \in 1..Len(modelConfigs) } \cup {"none"},
      out \in StubOutputs }

\* new Date().getHours() when the forecast starts
TimeOfDayValues == {23}

\* hourInput: the input shifted by hour hours
HourInput(currentAqi, timeOfDay, hour) ==
  [currentAqi |-> currentAqi, timeOfDay |-> (timeOfDay + hour) % 24]

\* a predict call that has not settled, and one that rejected
Pending(hourInput) == [status |-> "pending", input |-> hourInput]
Rejected(hourInput) == [status |-> "rejected", input |-> hourInput]

\* seeded fault: the results are taken from the last hour to the first
ResultsInOrder_Reversed(hours) ==
  [h \in 1..Len(hours) |-> hours[Len(hours) + 1 - h].result]

\* what Promise.all fulfils with: the results in the order of the promises
ResultsInOrder(hours) == [h \in 1..Len(hours) |-> hours[h].result]

\* the fallback result of predictBatch's catch
BatchFallback(input) ==
  [predictedAqi |-> NumberOf(input.currentAqi),
   confidence |-> NumDiv(NumberOf(1), NumberOf(2)),
   uncertainty |-> NumberOf(50),
   modelPredictions |->
     [name \in { modelConfigs[i] : i \in 1..Len(modelConfigs) } \cup {"ensemble"} |->
        NumberOf(input.currentAqi)],
   confidenceInterval |->
     <<NumSub(NumberOf(input.currentAqi), NumberOf(25)),
       NumAdd(NumberOf(input.currentAqi), NumberOf(25))>>]

\* generatePredictions up to its await of Promise.all: the weather is read and
\* one predict call per hour is started; when the weather service fails the
\* catch sets the fallback predictions at once
Forecast_generatePredictions ==
  /\ fc = NoForecast
  /\ \E currentAqi \in CurrentAqiValues, timeRange \in 1..MaxHours,
        timeOfDay \in TimeOfDayValues,
        weather \in BOOLEAN, offsets \in [1..MaxHours -> FallbackOffsets] :
       fc' = IF weather
             THEN [status |-> "running", call |-> "generatePredictions",
                   currentAqi |-> currentAqi,
                   timeOfDay |-> timeOfDay,
                   hours |-> [h \in 1..timeRange |->
                                Pending(HourInput(currentAqi, timeOfDay, h))],
                   completed |-> << >>,
                   predictions |-> << >>, notified |-> FALSE]
             ELSE [status |-> "done", call |-> "generatePredictions",
                   currentAqi |-> currentAqi,
                   timeOfDay |-> timeOfDay,
                   hours |-> << >>,
                   completed |-> << >>,
                   predictions |->
                     [h \in 1..timeRange |-> FallbackPrediction(currentAqi, offsets[h])],
                   notified |-> FALSE]
  /\ UNCHANGED <<updates, conflicts, subscribers, conflictSubscribers,
                 nextUpdate, nextConflict, last, resolverVars, hookVars, ens, serviceVars>>

\* one of the started predict calls settles: it rejects (initialize or
\* prepareInputTensor throws), or it runs its loop over the models, each stub
\* working or failing, and fulfils with the combined result
Forecast_predict ==
  /\ fc # NoForecast
  /\ fc.status = "running"
  /\ \E h \in 1..Len(fc.hours) :
       /\ fc.hours[h].status = "pending"
       /\ \/ fc' = [fc EXCEPT !.hours[h] = Rejected(fc.hours[h].input),
                              !.completed = Append(@, h)]
          \/ \E stubs \in HourStubs, noise \in NoisePatterns :
               \E models \in { ModelPredictions(fc.hours[h].input,
                                                 stubs, noise, Len(modelConfigs)) } :
                 fc' = [fc EXCEPT !.hours[h] =
                          [status |-> "fulfilled", input |-> fc.hours[h].input,
                           stubs |-> stubs,
                           models |-> models, result |-> predict(models)],
                        !.completed = Append(@, h)]
  /\ UNCHANGED <<updates, conflicts, subscribers, conflictSubscribers,
                 nextUpdate, nextConflict, last, resolverVars, hookVars, ens, serviceVars>>

\* Promise.all settles: fulfilled once every call is, with the results in the
\* order of the hours, and then setPredictions and onPredictionUpdate run;
\* rejected as soon as one call is, and then the catch sets a fallback
\* prediction for every hour
Forecast_settle ==
  /\ fc # NoForecast
  /\ fc.status = "running"
  /\ \/ /\ \A h \in 1..Len(fc.hours) : fc.hours[h].status = "fulfilled"
        /\ fc' = [fc EXCEPT !.status = "done",
                            !.predictions = ResultsInOrder(fc.hours),
                            !.notified = TRUE]
     \/ /\ \E h \in 1..Len(fc.hours) : fc.hours[h].status = "rejected"
        /\ \E offsets \in [1..Len(fc.hours) -> FallbackOffsets] :
             fc' = [fc EXCEPT !.status = "done",
                              !.predictions =
                                [h \in 1..Len(fc.hours) |->
                                   FallbackPrediction(fc.currentAqi, offsets[h])]]
  /\ UNCHANGED <<updates, conflicts, subscribers, conflictSubscribers,
                 nextUpdate, nextConflict, last, resolverVars, hookVars, ens, serviceVars>>

\* predictBatch is called with the inputs of up to MaxHours hours; with no
\* input it returns the empty list at once
Forecast_predictBatch ==
  /\ fc = NoForecast
  /\ \E currentAqi \in CurrentAqiValues, n \in 0..MaxHours,
        timeOfDay \in TimeOfDayValues :
       fc' = [status |-> IF n = 0 THEN "done" ELSE "batch",
              call |-> "predictBatch",
              currentAqi |-> currentAqi, timeOfDay |-> timeOfDay,
              hours |-> [h \in 1..n |-> Pending(HourInput(currentAqi, timeOfDay, h))],
              completed |-> << >>,
              predictions |-> << >>, notified |-> FALSE]
  /\ UNCHANGED <<updates, conflicts, subscribers, conflictSubscribers,
                 nextUpdate, nextConflict, last, resolverVars, hookVars, ens, serviceVars>>

\* one turn of predictBatch's loop: predict is awaited for the next input and
\* its result, or the fallback result when it rejects, is pushed; after the
\* last input the results are returned
Forecast_predictBatchStep ==
  /\ fc # NoForecast
  /\ fc.status = "batch"
  /\ LET h == Len(fc.predictions) + 1
         status == IF h = Len(fc.hours) THEN "done" ELSE "batch"
     IN  \/ fc' = [fc EXCEPT !.hours[h] = Rejected(fc.hours[h].input),
                             !.completed = Append(@, h),
                             !.predictions = Append(@, BatchFallback(fc.hours[h].input)),
                             !.status = status]
         \/ \E stubs \in HourStubs, noise \in NoisePatterns :
              \E models \in { ModelPredictions(fc.hours[h].input,
                                                stubs, noise, Len(modelConfigs)) } :
                \E result \in { predict(models) } :
                  fc' = [fc EXCEPT !.hours[h] =
                           [status |-> "fulfilled", input |-> fc.hours[h].input,
                            stubs |-> stubs, models |-> models, result |-> result],
                         !.completed = Append(@, h),
                         !.predictions = Append(@, result),
                         !.status = status]
  /\ UNCHANGED <<updates, conflicts, subscribers, conflictSubscribers,
                 nextUpdate, nextConflict, last, resolverVars, hookVars, ens, serviceVars>>

NextForecast ==
  \/ Forecast_generatePredictions
  \/ Forecast_predict
  \/ Forecast_settle
  \/ Forecast_predictBatch
  \/ Forecast_predictBatchStep

SpecForecast == Init /\ [][NextForecast]_vars

\* --------------------------------------------------------------------- C20
\* the hours of the forecast whose predict call has returned a result
FulfilledHours ==
  IF fc = NoForecast THEN {}
  ELSE { h \in 1..Len(fc.hours) : fc.hours[h].status = "fulfilled" }

\* C20 as stated: a model whose stub failed during a forecast has the fallback
\* prediction (the current value, uncertainty 25) in place of its own, and
\* the forecast is never aborted: once it is done, every hour whose predict
\* call returned a result shows that result, also when the predict call of
\* another hour was rejected.
C20_StubFailureIsLocal ==
  /\ \A h \in FulfilledHours :
       \A i \in 1..Len(fc.hours[h].models) :
         fc.hours[h].stubs[fc.hours[h].models[i].name] = Fails =>
           /\ fc.hours[h].models[i].prediction = NumberOf(fc.currentAqi)
           /\ fc.hours[h].models[i].uncertainty = NumberOf(25)
  /\ (fc # NoForecast /\ fc.status = "done") =>
       \A h \in FulfilledHours : fc.predictions[h] = fc.hours[h].result

\* --------------------------------------------------------------------- C21
\* the forecast has returned results to its caller: predictBatch has returned,
\* or Promise.all was fulfilled and onPredictionUpdate was given the results
ForecastReturned ==
  /\ fc # NoForecast
  /\ fc.status = "done"
  /\ fc.call = "predictBatch" \/ fc.notified

\* the result of the predict call of one hour: what it returned or, in
\* predictBatch, the fallback result when it was rejected
ResultOf(hour) ==
  IF hour.status = "fulfilled" THEN hour.result ELSE BatchFallback(hour.input)

\* C21: a forecast that returns results returns exactly one per hour offset
\* 1..horizonHours, and the i-th result is the one computed from the input
\* shifted by i hours, whatever order the per-hour predictions completed in.
C21_OneResultPerHourInOrder ==
  ForecastReturned =>
    /\ Len(fc.predictions) = Len(fc.hours)
    /\ \A i \in 1..Len(fc.hours) :
         /\ fc.hours[i].input = HourInput(fc.currentAqi, fc.timeOfDay, i)
         /\ fc.predictions[i] = ResultOf(fc.hours[i])

\* C21 witness: a forecast over MaxHours hours returned its results after the
\* prediction of the last hour completed first, and the results of the first
\* and the last hour differ.
C21_Witness ==
  /\ ForecastReturned
  /\ fc.notified
  /\ Len(fc.hours) = MaxHours
  /\ fc.completed[1] = MaxHours
  /\ fc.predictions[1] # fc.predictions[MaxHours]
  /\ fc.predictions[1] = fc.hours[1].result

\* ======================================================= the forecast store
\* generateAIForecast generates one forecast per hour, here MaxForecasts
MaxForecasts == 3
\* predictedAqi: Math.max(10, Math.min(500, predictedAqi))
PredictedAqiValues == {10, 150, 500}

\* the action's call: what it computed, what the store holds of it, whether
\* a failure was logged, and what the caller got
StoreCall(call, results, status, logged) ==
  [call |-> call, results |-> results, db |-> << >>, status |-> status,
   failed |-> FALSE, logged |-> logged, returned |-> << >>]

\* generateAIForecast up to its first runMutation: the zone is read (the
\* action throws when there is none) and the forecasts are computed
Store_generateAIForecast ==
  /\ store = NoStore
  /\ \/ store' = StoreCall("generateAIForecast", << >>, "rejected", FALSE)
     \/ \E forecasts \in [1..MaxForecasts -> PredictedAqiValues] :
          store' = StoreCall("generateAIForecast", forecasts, "storing", FALSE)
  /\ UNCHANGED <<coreVars, an, cq, sync, eng>>

\* runEnsemblePrediction up to its runMutation: the zone is read (a missing
\* zone is thrown, logged by the catch and thrown again) and the ensemble
\* result is computed
Store_runEnsemblePrediction ==
  /\ store = NoStore
  /\ \/ store' = StoreCall("runEnsemblePrediction", << >>, "rejected", TRUE)
     \/ \E ensembleResult \in PredictedAqiValues :
          store' = StoreCall("runEnsemblePrediction", <<ensembleResult>>,
                             "storing", FALSE)
  /\ UNCHANGED <<coreVars, an, cq, sync, eng>>

\* await ctx.runMutation for the next result: the store inserts it, and after
\* the last one the action returns its results; or the mutation fails, and
\* the action rejects (runEnsemblePrediction logs the error first)
Store_runMutation ==
  /\ store # NoStore
  /\ store.status = "storing"
  /\ LET k == Len(store.db) + 1
     IN  \/ store' = [store EXCEPT
                        !.db = Append(@, store.results[k]),
                        !.status = IF k = Len(store.results) THEN "returned" ELSE @,
                        !.returned = IF k = Len(store.results) THEN store.results ELSE @]
         \/ store' = [store EXCEPT
                        !.failed = TRUE,
                        !.status = "rejected",
                        !.logged = (store.call = "runEnsemblePrediction")]
  /\ UNCHANGED <<coreVars, an, cq, sync, eng>>

NextStore ==
  \/ Store_generateAIForecast
  \/ Store_runEnsemblePrediction
  \/ Store_runMutation

SpecStore == Init /\ [][NextStore]_vars

\* --------------------------------------------------------------------- C22
\* C22 as stated: each forecast result is persisted through the store
\* mutation, and a persistence failure is only logged: the action still
\* returns the results it computed.
C22_PersistenceFailureOnlyLogged ==
  /\ (store # NoStore /\ store.status = "returned") =>
       store.db = store.results /\ store.returned = store.results
  /\ (store # NoStore /\ store.failed) =>
       /\ store.logged
       /\ store.status # "rejected"

\* ======================================================= the anomaly scorer
\* the series must have at least 24 points
MinSeriesLength == 24
\* zScore > 4 is high
HighSeverity == NumberOf(4)
\* zScore > (3 - sensitivity)
BaseThreshold == NumberOf(3)

\* one entry of anomalies
Scored(index, value, z, threshold) ==
  [index |-> index, value |-> value, zScore |-> z,
   isAnomaly |-> NumLt(threshold, z),
   severity |-> IF NumLt(threshold, z)
                THEN (IF NumLt(HighSeverity, z) THEN "high" ELSE "medium")
                ELSE "low"]

\* Math.abs((value - mean) / std)
ZScore(value, mean, std) == Math_abs(NumDiv(NumSub(value, mean), std))

\* data.reduce((acc, val) => acc + Math.pow(val - mean, 2), 0), from the
\* i-th value on
RECURSIVE SquaresFrom(_, _, _, _)
SquaresFrom(acc, data, mean, i) ==
  IF i > Len(data) THEN acc
  ELSE IF acc = NaN THEN NaN
  ELSE SquaresFrom(NumAdd(acc, Math_pow2(NumSub(data[i], mean))), data, mean, i + 1)

\* the sample standard deviation of the series: one less in the divisor
SeriesStd_Sample(data, mean) ==
  Math_sqrt(NumDiv(SquaresFrom(Zero, data, mean, 1), NumberOf(Len(data) - 1)))

\* the population standard deviation of the whole series
SeriesStd(data, mean) ==
  Math_sqrt(NumDiv(SquaresFrom(Zero, data, mean, 1), NumberOf(Len(data))))

\* data.forEach from the i-th value on: the entries pushed to anomalies
RECURSIVE Scores(_, _, _, _, _)
Scores(data, mean, std, threshold, i) ==
  IF i > Len(data) THEN << >>
  ELSE << Scored(i - 1, data[i], ZScore(data[i], mean, std), threshold) >>
       \o Scores(data, mean, std, threshold, i + 1)

\* detectAnomaliesInData once the mean is known: the standard deviation is
\* that of the whole series, about this mean
ScoresAbout(data, sensitivity, mean) ==
  Scores(data, mean, SeriesStd(data, mean), NumSub(BaseThreshold, sensitivity), 1)

detectAnomaliesInData(data, sensitivity) ==
  ScoresAbout(data, sensitivity, SampleMean(data))

\* anomalies.filter(a => a.isAnomaly)
RECURSIVE Flagged(_, _)
Flagged(anomalies, n) ==
  IF n = 0 THEN << >>
  ELSE IF anomalies[n].isAnomaly
  THEN Append(Flagged(anomalies, n - 1), anomalies[n])
  ELSE Flagged(anomalies, n - 1)

\* calculateAnomalyConfidence
calculateAnomalyConfidence(anomalies) ==
  Math_min(MaxConfidence,
           NumAdd(NumDiv(NumberOf(Len(Flagged(anomalies, Len(anomalies)))),
                         NumberOf(Len(anomalies))),
                  NumDiv(NumberOf(1), NumberOf(2))))

\* the errors detectAnomalies rejects with
InsufficientData ==
  "Anomaly detection failed: Insufficient historical data for anomaly detection"
StoreFailed == "Anomaly detection failed: store"

\* the forecasts the query returns: inside stored forecasts within the time
\* range, of which the first outliers have the value outlier and the others
\* the value base, and outside stored forecasts beyond the end of the range
RECURSIVE Forecasts(_, _, _, _, _)
Forecasts(inside, outside, outliers, outlier, base) ==
  IF inside + outside = 0 THEN << >>
  ELSE IF outside > 0
  THEN Append(Forecasts(inside, outside - 1, outliers, outlier, base),
              [timestamp |-> "after", predictedAqi |-> base])
  ELSE Append(Forecasts(inside - 1, 0, outliers, outlier, base),
              [timestamp |-> "within",
               predictedAqi |-> IF inside <= outliers THEN outlier ELSE base])

\* every forecast's value, whatever its timestamp
RECURSIVE historicalData_Unfiltered(_, _)
historicalData_Unfiltered(forecasts, n) ==
  IF n = 0 THEN << >>
  ELSE Append(historicalData_Unfiltered(forecasts, n - 1), forecasts[n].predictedAqi)

\* forecasts.filter(f => f.timestamp >= startTime && f.timestamp <= endTime)
\*          .map(f => f.predictedAqi)
RECURSIVE historicalData(_, _)
historicalData(forecasts, n) ==
  IF n = 0 THEN << >>
  ELSE IF forecasts[n].timestamp = "within"
  THEN Append(historicalData(forecasts, n - 1), forecasts[n].predictedAqi)
  ELSE historicalData(forecasts, n - 1)

\* the sensitivities given, in tenths
SensitivityTenths == {0, 4, 5, 8, 10}
\* a series too short, and the length of a long series
ShortSeries == 23
LongSeries == 102
\* the values of a series
BaseValue == NumberOf(50)
TenthValue == NumDiv(NumberOf(1), NumberOf(10))
TinyValue == Finite(1, TenthValue.m, TenthValue.e - 500)
OutlierValue == NumberOf(500)
\* the query results given to detectAnomalies, each with the sensitivities
\* it is scored at
SeriesShapes ==
  { [inside |-> ShortSeries, outside |-> outside, outliers |-> 0, base |-> BaseValue,
     tenths |-> SensitivityTenths] : outside \in {0, 1} }
  \cup { [inside |-> MinSeriesLength, outside |-> 0, outliers |-> outliers, base |-> base,
          tenths |-> SensitivityTenths] :
           outliers \in {0, 1, 3}, base \in {BaseValue, TenthValue} }
  \cup { [inside |-> MinSeriesLength, outside |-> 0, outliers |-> 0, base |-> TinyValue,
          tenths |-> SensitivityTenths] }
  \cup { [inside |-> LongSeries, outside |-> 0, outliers |-> 1, base |-> BaseValue,
          tenths |-> {8}] }

\* a call of detectAnomalies: the forecasts read, its series and sensitivity,
\* the scores computed, what the store holds, what it returned and the error
\* it rejected with
NoError == "none"
NotReturned == [tag |-> "none"]
Series(status, forecasts, data, sensitivity, anomalies, error) ==
  [status |-> status, forecasts |-> forecasts, data |-> data,
   sensitivity |-> sensitivity, anomalies |-> anomalies, stored |-> << >>,
   returned |-> NotReturned, error |-> error]

\* detectAnomalies once the forecasts are read: a series that is too short is
\* rejected, any other is scored
Scoring(forecasts, data, sensitivity) ==
  IF Len(data) < MinSeriesLength
  THEN Series("rejected", forecasts, data, sensitivity, << >>, InsufficientData)
  ELSE Series("scored", forecasts, data, sensitivity,
              detectAnomaliesInData(data, sensitivity), NoError)

\* detectAnomalies up to its runMutation: the forecasts are read and
\* filtered, and the series is scored
Anomaly_detectAnomalies ==
  /\ an = NoSeries
  /\ \E shape \in SeriesShapes :
     \E tenths \in shape.tenths :
       \E forecasts \in { Forecasts(shape.inside, shape.outside, shape.outliers,
                                    OutlierValue, shape.base) } :
         \E data \in { historicalData(forecasts, Len(forecasts)) } :
           an' = Scoring(forecasts, data, NumDiv(NumberOf(tenths), NumberOf(10)))
  /\ UNCHANGED <<coreVars, store, cq, sync, eng>>

\* what detectAnomalies returns
AnomalyResult(anomalies, flagged) ==
  [anomalies |-> flagged, totalAnomalies |-> Len(flagged),
   confidence |-> calculateAnomalyConfidence(anomalies)]

\* await ctx.runMutation(storeAnomalyResult): the anomalies are stored and
\* the flagged ones returned, or the mutation fails and the action rejects
Anomaly_storeAnomalyResult ==
  /\ an # NoSeries
  /\ an.status = "scored"
  /\ \/ \E flagged \in { Flagged(an.anomalies, Len(an.anomalies)) } :
          an' = [an EXCEPT !.status = "returned",
                           !.stored = an.anomalies,
                           !.returned = AnomalyResult(an.anomalies, flagged)]
     \/ an' = [an EXCEPT !.status = "rejected", !.error = StoreFailed]
  /\ UNCHANGED <<coreVars, store, cq, sync, eng>>

NextAnomaly ==
  \/ Anomaly_detectAnomalies
  \/ Anomaly_storeAnomalyResult

SpecAnomaly == Init /\ [][NextAnomaly]_vars

\* ------------------------------------------------------------------ C23
\* the series was long enough and has been scored
WasScored == an # NoSeries /\ an.status \in {"scored", "returned"}
\* every value of the series is the same
Identical(data) == \A i \in 1..Len(data) : data[i] = data[1]

\* C23: in a series of 24 identical values no point is flagged, whatever the
\* sensitivity in [0, 1], and every point has severity low
C23_IdenticalSeriesUnflagged ==
  (WasScored /\ Len(an.data) = 24 /\ Identical(an.data)) =>
    /\ Len(an.anomalies) = 24
    /\ \A i \in 1..Len(an.anomalies) :
         /\ ~an.anomalies[i].isAnomaly
         /\ an.anomalies[i].severity = "low"

\* ------------------------------------------------------------------ C24
\* |value - mean| / std
DeviationsFromMean(value, mean, std) == NumDiv(Math_abs(NumSub(value, mean)), std)

\* every point is flagged exactly when it lies more than threshold standard
\* deviations from the mean, and its severity is that of its distance
FlagsAgree(anomalies, data, threshold, mean, std) ==
  /\ Len(anomalies) = Len(data)
  /\ \A i \in 1..Len(data) :
       LET z == DeviationsFromMean(data[i], mean, std)
       IN  /\ anomalies[i].isAnomaly <=> NumLt(threshold, z)
           /\ anomalies[i].severity =
                IF ~NumLt(threshold, z) THEN "low"
                ELSE IF NumLt(NumberOf(4), z) THEN "high"
                ELSE "medium"
FlagsAgreeAbout(anomalies, data, threshold, mean) ==
  FlagsAgree(anomalies, data, threshold, mean, SampleStd(data, mean))

\* C24: a point is flagged iff its z-score against the population mean and
\* standard deviation of the whole series exceeds 3 - sensitivity; a flagged
\* point is high when z > 4 and medium otherwise, an unflagged point is low
C24_FlaggedIffAboveThreshold ==
  WasScored =>
    FlagsAgreeAbout(an.anomalies, an.data, NumSub(NumberOf(3), an.sensitivity),
                    SampleMean(an.data))

\* reached: at sensitivity 0.8 a point ten or more standard deviations from
\* the mean has been returned flagged high
C24_Witness ==
  /\ WasScored
  /\ an.status = "returned"
  /\ an.sensitivity = NumDiv(NumberOf(8), NumberOf(10))
  /\ NumLe(NumberOf(10), an.anomalies[1].zScore)
  /\ an.anomalies[1].zScore.k = "finite"
  /\ an.returned.anomalies = << an.anomalies[1] >>
  /\ an.anomalies[1].severity = "high"
  /\ an.anomalies[2].severity = "low"

\* ------------------------------------------------------------------ C25
\* the forecasts within the time range
InRange(forecasts) ==
  Cardinality({ i \in 1..Len(forecasts) : forecasts[i].timestamp = "within" })

\* C25: with fewer than 24 points in the series the detection fails with the
\* insufficient-data error, flags nothing and stores nothing; with 24 points
\* or more every point is scored
C25_ShortSeriesRejected ==
  an # NoSeries =>
    /\ InRange(an.forecasts) < 24 =>
         /\ an.status = "rejected"
         /\ an.error = InsufficientData
         /\ an.anomalies = << >>
         /\ an.stored = << >>
         /\ an.returned = NotReturned
    /\ InRange(an.forecasts) >= 24 =>
         /\ Len(an.anomalies) = InRange(an.forecasts)
         /\ an.error # InsufficientData

\* reached: 24 forecasts were read, 23 of them within the range, and the
\* detection failed
C25_Witness ==
  /\ an # NoSeries
  /\ Len(an.forecasts) = 24
  /\ InRange(an.forecasts) = 23
  /\ an.status = "rejected"

\* ================================================ ConcurrentUpdateManager
maxConcurrentUpdates == 5
\* the updates given to queueUpdate
MaxQueueUpdates == 7
\* what an update does when called: return, throw, or return a promise that
\* is fulfilled or rejected later
UpdateKinds == {"returns", "throws", "resolves", "rejects"}
\* the updates among them that return a promise
MaxPromised == 2
Promising(kind) == IF kind \in {"resolves", "rejects"} THEN 1 ELSE 0

\* updatesToProcess.map(update => { try { return update() } catch ... }):
\* what Promise.all is given for one update
Called(update) ==
  [id |-> update.id,
   promise |-> IF update.kind \in {"returns", "throws"} THEN "fulfilled"
               ELSE "pending",
   kind |-> update.kind]

\* the ids of the updates of a list, in order
Ids(list) == [i \in 1..Len(list) |-> list[i].id]

Thrown(list) == Cardinality({ i \in 1..Len(list) : list[i].kind = "throws" })

\* the first n elements of a list and the others: splice(0, n)
Spliced(list, n) == SubSeq(list, 1, IF Len(list) < n THEN Len(list) ELSE n)
Remaining(list, n) == SubSeq(list, (IF Len(list) < n THEN Len(list) ELSE n) + 1, Len(list))

\* processQueue up to its await: nothing while a batch is processed or the
\* queue is empty, otherwise the first updates of the queue are called
processQueue(m) ==
  IF m.isProcessing \/ Len(m.updateQueue) = 0 THEN m
  ELSE [m EXCEPT
          !.isProcessing = TRUE,
          !.awaiting = TRUE,
          !.updateQueue = Remaining(m.updateQueue, maxConcurrentUpdates),
          !.batch = [i \in 1..Len(Spliced(m.updateQueue, maxConcurrentUpdates)) |->
                       Called(m.updateQueue[i])],
          !.executed = m.executed \o Ids(Spliced(m.updateQueue, maxConcurrentUpdates)),
          !.logged = m.logged + Thrown(Spliced(m.updateQueue, maxConcurrentUpdates))]

\* queueUpdate(update)
Queue_queueUpdate ==
  /\ cq.queued < MaxQueueUpdates
  /\ \E kind \in UpdateKinds :
       /\ cq.promised + Promising(kind) <= MaxPromised
       /\ cq' = processQueue(
               [cq EXCEPT !.queued = cq.queued + 1,
                          !.promised = cq.promised + Promising(kind),
                          !.updateQueue =
                            Append(cq.updateQueue,
                                   [id |-> cq.queued + 1, kind |-> kind])])
  /\ UNCHANGED <<coreVars, store, an, sync, eng>>

\* a promise returned by an update of the batch is settled
Queue_settle ==
  /\ \E i \in 1..Len(cq.batch) :
       /\ cq.batch[i].promise = "pending"
       /\ cq' = [cq EXCEPT !.batch[i].promise =
                   IF cq.batch[i].kind = "rejects" THEN "rejected" ELSE "fulfilled"]
  /\ UNCHANGED <<coreVars, store, an, sync, eng>>

\* Promise.all is settled and processQueue goes on after its await: with
\* every promise fulfilled the flag is lowered and a timer set for what is
\* left in the queue; with a rejected promise the await throws and
\* processQueue ends there
Queue_resume ==
  /\ cq.awaiting
  /\ \/ \E i \in 1..Len(cq.batch) : cq.batch[i].promise = "rejected"
     \/ \A i \in 1..Len(cq.batch) : cq.batch[i].promise = "fulfilled"
  /\ cq' = IF \E i \in 1..Len(cq.batch) : cq.batch[i].promise = "rejected"
           THEN [cq EXCEPT !.awaiting = FALSE, !.batch = << >>, !.unhandled = TRUE]
           ELSE [cq EXCEPT !.awaiting = FALSE, !.batch = << >>,
                           !.isProcessing = FALSE,
                           !.timers = IF Len(cq.updateQueue) > 0
                                      THEN cq.timers + 1 ELSE cq.timers]
  /\ UNCHANGED <<coreVars, store, an, sync, eng>>

\* setTimeout(() => this.processQueue(), 16) fires
Queue_timeout ==
  /\ cq.timers > 0
  /\ cq' = processQueue([cq EXCEPT !.timers = cq.timers - 1])
  /\ UNCHANGED <<coreVars, store, an, sync, eng>>

\* clearQueue()
Queue_clearQueue ==
  /\ Len(cq.updateQueue) > 0
  /\ cq' = [cq EXCEPT !.updateQueue = << >>,
                      !.cleared = cq.cleared \cup { cq.updateQueue[i].id :
                                                    i \in 1..Len(cq.updateQueue) }]
  /\ UNCHANGED <<coreVars, store, an, sync, eng>>

NextQueue ==
  \/ Queue_queueUpdate
  \/ Queue_settle
  \/ Queue_resume
  \/ Queue_timeout
  \/ Queue_clearQueue

\* microtasks and timers run, and the promises of the updates are settled
SpecQueue ==
  /\ Init
  /\ [][NextQueue]_vars
  /\ WF_vars(Queue_settle)
  /\ WF_vars(Queue_resume)
  /\ WF_vars(Queue_timeout)

\* ------------------------------------------------------------------ C26
WasExecuted(id) == \E i \in 1..Len(cq.executed) : cq.executed[i] = id

\* C26: every update given to queueUpdate is eventually executed, unless
\* clearQueue removed it, and isProcessing does not stay true forever
C26_QueueKeepsDraining ==
  /\ \A id \in 1..MaxQueueUpdates :
       (cq.queued >= id) ~> (WasExecuted(id) \/ id \in cq.cleared)
  /\ []<>(~cq.isProcessing)

\* ============================================================ useOfflineSync
\* the items queued, the passes in flight at once, the times one item is sent
MaxSyncItems == 2
MaxPasses == 2
MaxAttempts == 4
\* if (updatedItem.retryCount < 3)
maxRetries == 3
SyncTypes == {"chat", "annotation", "filter"}

\* the part of offlineState the callbacks read
OfflineState(isOnline, isSyncing, syncQueue) ==
  [isOnline |-> isOnline, isSyncing |-> isSyncing, syncQueue |-> syncQueue]

\* a render: offlineState becomes state, and every memoized callback or effect
\* of which a dependency changed is made again and sees state from then on;
\* the others keep the offlineState of the render that made them.
\* queueChatMessage, queueAnnotation, queueFilterUpdate depend on syncQueue
\* and isOnline, the interval effect on isOnline and syncQueue.length, the
\* online listener on syncQueue.length; saved tells that savePendingChanges
\* has set a new syncQueue array
Rendered(s, state, saved) ==
  [s EXCEPT
     !.state = state,
     !.queueClosure =
       IF saved \/ state.isOnline # s.state.isOnline THEN state ELSE s.queueClosure,
     !.intervalClosure =
       IF state.isOnline # s.state.isOnline
          \/ Len(state.syncQueue) # Len(s.state.syncQueue)
       THEN state ELSE s.intervalClosure,
     !.onlineClosure =
       IF Len(state.syncQueue) # Len(s.state.syncQueue)
       THEN state ELSE s.onlineClosure]

\* syncItem(item) is called: with a session the item is sent by a mutation
Sent(s, item) ==
  IF s.sessionId THEN [s EXCEPT !.attempts[item.id] = s.attempts[item.id] + 1] ELSE s

\* the guard of syncPendingChanges, on the offlineState its closure sees
Returns_Early(closure) ==
  closure.isSyncing \/ ~closure.isOnline \/ Len(closure.syncQueue) = 0

\* syncPendingChanges() up to its first await, called with the offlineState
\* of closure: the pass copies the queue it sees and sends its first item
syncPendingChanges(s, closure) ==
  IF Returns_Early(closure) THEN s
  ELSE [Sent(s, closure.syncQueue[1]) EXCEPT
          !.passes = Append(s.passes,
                            [queue |-> closure.syncQueue, position |-> 1,
                             successfulSyncs |-> {}, failedSyncs |-> << >>])]

\* the bounds allow the call of syncPendingChanges with this closure
WithinBounds(s, closure) ==
  Returns_Early(closure)
  \/ /\ Len(s.passes) < MaxPasses
     /\ \A i \in 1..Len(closure.syncQueue) :
          s.attempts[closure.syncQueue[i].id] < MaxAttempts

\* setOfflineState(prev => ({ ...prev, isSyncing: true })) if the call went on
StateAfterCall(state, closure) ==
  IF Returns_Early(closure) THEN state
  ELSE [state EXCEPT !.isSyncing = TRUE]

\* the component calls useOfflineSync: nothing is stored yet
Sync_useOfflineSync ==
  /\ sync = NoSync
  /\ \E sessionId \in BOOLEAN :
       sync' = [sessionId |-> sessionId,
                state |-> OfflineState(TRUE, FALSE, << >>),
                queueClosure |-> OfflineState(TRUE, FALSE, << >>),
                intervalClosure |-> OfflineState(TRUE, FALSE, << >>),
                onlineClosure |-> OfflineState(TRUE, FALSE, << >>),
                storage |-> << >>,
                passes |-> << >>,
                nextId |-> 1,
                attempts |-> [id \in 1..MaxSyncItems |-> 0],
                failures |-> [id \in 1..MaxSyncItems |-> 0],
                synced |-> {},
                queuedDuringPass |-> {}]
  /\ UNCHANGED <<coreVars, store, an, cq, eng>>

\* savePendingChanges(queue) and the state it sets
Saved(s, queue) == [s EXCEPT !.storage = queue]

\* queueChatMessage, queueAnnotation, queueFilterUpdate: the item is appended
\* to the queue the callback sees and saved; if the callback sees the
\* browser online it calls the syncPendingChanges of its render
Sync_queueItem ==
  /\ sync # NoSync
  /\ sync.nextId <= MaxSyncItems
  /\ WithinBounds(sync, sync.queueClosure)
  /\ \E type \in SyncTypes :
       \E newQueue \in { Append(sync.queueClosure.syncQueue,
                                [id |-> sync.nextId, type |-> type, retryCount |-> 0]) } :
         sync' =
           Rendered(
             IF sync.queueClosure.isOnline
             THEN syncPendingChanges(
                    [Saved(sync, newQueue) EXCEPT
                       !.nextId = sync.nextId + 1,
                       !.queuedDuringPass =
                         IF Len(sync.passes) > 0
                         THEN sync.queuedDuringPass \cup {sync.nextId}
                         ELSE sync.queuedDuringPass],
                    sync.queueClosure)
             ELSE [Saved(sync, newQueue) EXCEPT
                     !.nextId = sync.nextId + 1,
                     !.queuedDuringPass =
                       IF Len(sync.passes) > 0
                       THEN sync.queuedDuringPass \cup {sync.nextId}
                       ELSE sync.queuedDuringPass],
             IF sync.queueClosure.isOnline
             THEN StateAfterCall([sync.state EXCEPT !.syncQueue = newQueue],
                                 sync.queueClosure)
             ELSE [sync.state EXCEPT !.syncQueue = newQueue],
             TRUE)
  /\ UNCHANGED <<coreVars, store, an, cq, eng>>

\* the auto-sync interval fires: it exists if its effect saw the browser
\* online, and calls the syncPendingChanges of the effect's render
Sync_interval ==
  /\ sync # NoSync
  /\ sync.intervalClosure.isOnline
  /\ Len(sync.intervalClosure.syncQueue) > 0
  /\ ~Returns_Early(sync.intervalClosure)
  /\ WithinBounds(sync, sync.intervalClosure)
  /\ sync' = Rendered(syncPendingChanges(sync, sync.intervalClosure),
                      StateAfterCall(sync.state, sync.intervalClosure), FALSE)
  /\ UNCHANGED <<coreVars, store, an, cq, eng>>

\* the browser goes offline
Sync_handleOffline ==
  /\ sync # NoSync
  /\ sync.state.isOnline
  /\ sync' = Rendered(sync, [sync.state EXCEPT !.isOnline = FALSE], FALSE)
  /\ UNCHANGED <<coreVars, store, an, cq, eng>>

\* the browser comes online: the listener calls the syncPendingChanges of its
\* render if it sees a queue that is not empty
Sync_handleOnline ==
  /\ sync # NoSync
  /\ ~sync.state.isOnline
  /\ WithinBounds(sync, sync.onlineClosure)
  /\ sync' =
       IF Len(sync.onlineClosure.syncQueue) > 0
       THEN Rendered(syncPendingChanges(sync, sync.onlineClosure),
                     StateAfterCall([sync.state EXCEPT !.isOnline = TRUE],
                                    sync.onlineClosure),
                     FALSE)
       ELSE Rendered(sync, [sync.state EXCEPT !.isOnline = TRUE], FALSE)
  /\ UNCHANGED <<coreVars, store, an, cq, eng>>

\* the queue a pass saves at its end: queue.filter(item =>
\*   !successfulSyncs.includes(item.id) && failedSyncs.some(f => f.id === item.id))
RECURSIVE Kept(_, _, _, _)
Kept(queue, successfulSyncs, failedSyncs, n) ==
  IF n = 0 THEN << >>
  ELSE IF /\ queue[n].id \notin successfulSyncs
          /\ \E f \in 1..Len(failedSyncs) : failedSyncs[f].id = queue[n].id
  THEN Append(Kept(queue, successfulSyncs, failedSyncs, n - 1), queue[n])
  ELSE Kept(queue, successfulSyncs, failedSyncs, n - 1)

\* the items of a list but the p-th
Without(list, p) == [i \in 1..(Len(list) - 1) |-> IF i < p THEN list[i] ELSE list[i + 1]]

\* the pass after the await of its item at position: the item has synced, or
\* it has failed and is kept for a retry while its new retryCount is below 3
Settled(pass, ok) ==
  IF ok
  THEN [pass EXCEPT !.successfulSyncs = pass.successfulSyncs \cup {pass.queue[pass.position].id},
                    !.position = pass.position + 1]
  ELSE [pass EXCEPT
          !.failedSyncs =
            IF pass.queue[pass.position].retryCount + 1 < maxRetries
            THEN Append(pass.failedSyncs,
                        [pass.queue[pass.position] EXCEPT
                           !.retryCount = pass.queue[pass.position].retryCount + 1])
            ELSE pass.failedSyncs,
          !.position = pass.position + 1]

\* the outcome of the await is recorded
Recorded_Outcome(s, item, ok) ==
  IF ok THEN [s EXCEPT !.synced = s.synced \cup {item.id}]
  ELSE [s EXCEPT !.failures[item.id] = s.failures[item.id] + 1]

\* the pass goes on after its await: the loop sends the next item
Continued(s, p, pass) ==
  Sent([s EXCEPT !.passes[p] = pass], pass.queue[pass.position])

\* the pass ends after its loop: the kept queue is saved, isSyncing lowered
Finished(s, p, pass) ==
  Rendered(
    [Saved(s, Kept(pass.queue, pass.successfulSyncs, pass.failedSyncs, Len(pass.queue)))
       EXCEPT !.passes = Without(s.passes, p)],
    [s.state EXCEPT
       !.syncQueue = Kept(pass.queue, pass.successfulSyncs, pass.failedSyncs,
                          Len(pass.queue)),
       !.isSyncing = FALSE],
    TRUE)

\* await syncItem(item) returns or throws in a pass, and the pass goes on to
\* its next await or to its end; without a session syncItem sends nothing
\* and returns
Sync_syncItem ==
  /\ sync # NoSync
  /\ \E p \in 1..Len(sync.passes), ok \in BOOLEAN :
       /\ ~sync.sessionId => ok
       /\ \E pass \in { Settled(sync.passes[p], ok) } :
            sync' =
              IF pass.position <= Len(pass.queue)
              THEN Continued(Recorded_Outcome(sync, pass.queue[pass.position - 1], ok),
                             p, pass)
              ELSE Finished(Recorded_Outcome(sync, pass.queue[pass.position - 1], ok),
                            p, pass)
  /\ UNCHANGED <<coreVars, store, an, cq, eng>>

NextSync ==
  \/ Sync_useOfflineSync
  \/ Sync_queueItem
  \/ Sync_interval
  \/ Sync_handleOffline
  \/ Sync_handleOnline
  \/ Sync_syncItem

SpecSync == Init /\ [][NextSync]_vars

\* ------------------------------------------------------------------ C27
InQueue(id, queue) == \E i \in 1..Len(queue) : queue[i].id = id

\* C27: when no pass is in flight, an item whose sync failed is in the queue
\* with a retryCount of as many failures, unless it has failed 3 times and
\* was dropped, and an item that has synced is not in the queue; no item
\* fails more than 3 times
C27_FailedItemCountedAndDropped ==
  sync # NoSync =>
    /\ Len(sync.passes) = 0 =>
         /\ \A i \in 1..Len(sync.storage) :
              sync.storage[i].retryCount = sync.failures[sync.storage[i].id]
         /\ \A id \in sync.synced : ~InQueue(id, sync.storage)
    /\ \A id \in 1..MaxSyncItems :
         /\ sync.failures[id] <= 3
         /\ sync.failures[id] >= 3 => ~InQueue(id, sync.storage)

\* ------------------------------------------------------------------ C28
\* C28: at most one pass is in flight, and an item queued while a pass was in
\* flight that no pass has sent yet is in the sync queue and in localStorage
C28_QueuedDuringPassSurvives ==
  sync # NoSync =>
    /\ Len(sync.passes) <= 1
    /\ \A id \in sync.queuedDuringPass :
         sync.attempts[id] = 0 =>
           /\ InQueue(id, sync.state.syncQueue)
           /\ InQueue(id, sync.storage)

\* ====================================== the engine's initialization
\* the predict calls issued
MaxPredicts == 2

IsTensorflow(name) == ModelType(name) = "tensorflow"
IsOnnx(name) == ModelType(name) = "onnx"
\* the order initialize loads the models in: the TensorFlow.js models of
\* modelConfigs, then its ONNX models
LoadOrder == SelectSeq(modelConfigs, IsTensorflow) \o SelectSeq(modelConfigs, IsOnnx)

\* a call of initialize that passed its guard awaits the backend (at 0) or
\* the loading of the model at its place in LoadOrder; it ends done or,
\* when the backend fails, rejected
AwaitsBackend == 0
InitializeRejected == -1
InitializeDone == Len(LoadOrder) + 1

\* new EnsemblePredictionEngine() in a new MLPredictionWorker
NewEngine ==
  [engines |-> 1, isInitialized |-> FALSE, models |-> {},
   loads |-> [name \in Range(modelConfigs) |-> 0],
   registered |-> [name \in Range(modelConfigs) |-> 0],
   initializations |-> << >>, predicts |-> 0, predicted |-> 0]

\* engine.initialize() up to its first await: nothing once isInitialized is
\* set, otherwise one more run of the loading begins
initialize(e) ==
  IF e.isInitialized THEN e
  ELSE [e EXCEPT !.initializations = Append(e.initializations, AwaitsBackend)]

\* initWorker: workerRef.current = new MLPredictionWorker() and its
\* initialize(), which makes the engine and calls engine.initialize()
Engine_initWorker ==
  /\ eng = NoEngine
  /\ eng' = initialize(NewEngine)
  /\ UNCHANGED <<coreVars, store, an, cq, sync>>

\* worker.predict(input) for one hour: the worker has its engine, and
\* engine.predict awaits initialize() unless isInitialized is set
Engine_predict ==
  /\ eng # NoEngine
  /\ eng.predicts < MaxPredicts
  /\ eng' = IF eng.isInitialized
            THEN [eng EXCEPT !.predicts = eng.predicts + 1,
                             !.predicted = eng.predicted + 1]
            ELSE initialize([eng EXCEPT !.predicts = eng.predicts + 1])
  /\ UNCHANGED <<coreVars, store, an, cq, sync>>

\* the loading of the model at place k is begun
Loading(e, k) ==
  [e EXCEPT !.loads[LoadOrder[k]] = e.loads[LoadOrder[k]] + 1]

\* this.models.set(name, ...)
Registered(e, name) ==
  [e EXCEPT !.models = e.models \cup {name},
            !.registered[name] = e.registered[name] + 1]

\* the await of a loading returns or throws: a loaded model is registered,
\* and so is the fallback model of a TensorFlow.js model that failed to load
AfterLoading(e, name, ok) ==
  IF ok \/ IsTensorflow(name) THEN Registered(e, name) ELSE e

\* a run of initialize goes on after its await: after the backend to the
\* first loading (or it rejects), after a loading to the next, after the
\* last to this.isInitialized = true
Engine_initializeStep ==
  /\ eng # NoEngine
  /\ \E i \in 1..Len(eng.initializations), ok \in BOOLEAN :
       /\ eng.initializations[i] \in 0..Len(LoadOrder)
       /\ eng' =
            IF eng.initializations[i] = AwaitsBackend
            THEN IF ok
                 THEN [Loading(eng, 1) EXCEPT !.initializations[i] = 1]
                 ELSE [eng EXCEPT !.initializations[i] = InitializeRejected]
            ELSE IF eng.initializations[i] < Len(LoadOrder)
            THEN [Loading(AfterLoading(eng, LoadOrder[eng.initializations[i]], ok),
                          eng.initializations[i] + 1)
                    EXCEPT !.initializations[i] = eng.initializations[i] + 1]
            ELSE [AfterLoading(eng, LoadOrder[eng.initializations[i]], ok)
                    EXCEPT !.initializations[i] = InitializeDone,
                           !.isInitialized = TRUE]
  /\ UNCHANGED <<coreVars, store, an, cq, sync>>

NextEngine ==
  \/ Engine_initWorker
  \/ Engine_predict
  \/ Engine_initializeStep

SpecEngine == Init /\ [][NextEngine]_vars

\* ------------------------------------------------------------------ C30
\* C30: the worker makes one engine, and on it no model is loaded more than
\* once nor registered in the models map more than once
C30_ModelsLoadedOnce ==
  eng # NoEngine =>
    /\ eng.engines <= 1
    /\ \A name \in Range(modelConfigs) :
         /\ eng.loads[name] <= 1
         /\ eng.registered[name] <= 1

====
